---- MODULE Spec2Model ----
(***************************************************************************)
(* Model of finn-rudolph/trees: the union-find of terms with edge-labelled *)
(* leaf maps (src/src/eqclass.rs), the permutations it composes            *)
(* (src/src/perm/perms.rs) and the Schreier-Sims permutation group that    *)
(* stores the automorphisms of a class (src/src/perm/group.rs); the maps   *)
(* keyed by node address (src/src/maps.rs), the pattern index              *)
(* (src/src/indexing.rs) and substitution (src/src/term.rs,                *)
(* src/src/tree.rs).                                                       *)
(*                                                                         *)
(* Encoding.  Rust indices are 0-based and are kept 0-based: the entry     *)
(* with index i is entries[i + 1], the image of leaf i under perm p is     *)
(* p[i + 1].  Option<T> is a sequence: <<>> is None, <<x>> is Some(x).     *)
(* A Term is <<>> (Variable) or <<l, r>> (Operation(l, r)), compared       *)
(* structurally as the derived Eq/Hash of src/src/term.rs:13 does.         *)
(***************************************************************************)
EXTENDS Integers, Sequences, FiniteSets, TLC

VARIABLES entries, by_shape, linked, last, panicked, group, fed, call, iter

vars == <<entries, by_shape, linked, last, panicked, group, fed, call, iter>>

None == <<>>

Some(x) == <<x>>

(***************************************************************************)
(* Permutation (src/src/perm/perms.rs)                                     *)
(***************************************************************************)

\* Permutation::get: the image of index, the identity beyond the array.
PermGet(perm, index) == IF index >= Len(perm) THEN index ELSE perm[index + 1]

\* Permutation::identity: the empty array.
PermIdentity == <<>>

\* Permutation::nonfix_index: scans for the first position i whose value v
\* differs from i and returns Some(v), the VALUE found there (perms.rs:53).
RECURSIVE NonfixScan(_, _)
NonfixScan(perm, i) ==
    IF i >= Len(perm) THEN None
    ELSE IF i # perm[i + 1] THEN Some(perm[i + 1])
    ELSE NonfixScan(perm, i + 1)

NonfixIndex(perm) == NonfixScan(perm, 0)

\* Permutation::is_identity
IsIdentity(perm) == NonfixIndex(perm) = None

\* Permutation::inverse stores at inverse_map[v] for every value v of the
\* array: the index is in bounds when v is below the length, and the store
\* panics otherwise.  Every array that is a permutation is in bounds.
InverseInBounds(perm) == \A k \in 1..Len(perm) : perm[k] < Len(perm)

\* Permutation::inverse: a zero-filled array of the same length, then
\* inverse_map[v] = i for every (i, v) in order.
RECURSIVE InverseFill(_, _, _)
InverseFill(perm, i, acc) ==
    IF i >= Len(perm) THEN acc
    ELSE InverseFill(perm, i + 1, [acc EXCEPT ![perm[i + 1] + 1] = i])

\* inverse with index and value exchanged in the store: inverse_map[i] = v.
PermInverseCopied(perm) == [k \in 1..Len(perm) |-> perm[k]]

PermInverse(perm) == InverseFill(perm, 0, [k \in 1..Len(perm) |-> 0])

\* Mul for &Permutation: (0..max_len).map(|i| rhs.get(self.get(i)))
PermMul(self, rhs) ==
    LET max_len == IF Len(self) >= Len(rhs) THEN Len(self) ELSE Len(rhs)
    IN  [k \in 1..max_len |-> PermGet(rhs, PermGet(self, k - 1))]

\* the in-place product without the extension of self: only the values
\* self holds are mapped.
PermMulAssignNoExtend(self, rhs) ==
    [k \in 1..Len(self) |-> PermGet(rhs, self[k])]

\* MulAssign for Permutation: extend self by self_len..rhs_len when rhs is
\* longer, then replace every value v by rhs.get(v).
PermMulAssign(self, rhs) ==
    LET extended == IF Len(rhs) > Len(self)
                    THEN self \o [k \in 1..(Len(rhs) - Len(self)) |-> Len(self) + k - 1]
                    ELSE self
    IN  [k \in 1..Len(extended) |-> PermGet(rhs, extended[k])]

(***************************************************************************)
(* PermutationGroup (src/src/perm/group.rs)                                *)
(***************************************************************************)

\* PermutationGroup::new
GroupNew(stab_point) ==
    [ stab_point      |-> stab_point,
      stab_subgroup   |-> None,
      generators      |-> <<>>,
      transversal_inv |-> [k \in 1..(stab_point + 1) |->
                              IF k - 1 = stab_point THEN Some(PermIdentity) ELSE None],
      orbits          |-> <<stab_point>> ]

\* PermutationGroup::inv_coset_repr
InvCosetRepr(g, orbit) ==
    IF orbit >= Len(g.transversal_inv) THEN None ELSE g.transversal_inv[orbit + 1]

\* the membership test that stops at the orbit: it accepts every permutation
\* that sends the base point to a point with a stored representative.
ContainsAny(g, perm) == InvCosetRepr(g, PermGet(perm, g.stab_point)) # None

\* PermutationGroup::contains_owned (contains clones and calls it)
RECURSIVE Contains(_, _)
Contains(g, perm) ==
    LET orbit == PermGet(perm, g.stab_point)
        inv_coset_repr == InvCosetRepr(g, orbit)
    IN  IF inv_coset_repr # None
        THEN LET sifted == PermMulAssign(perm, inv_coset_repr[1])
             IN  IF g.stab_subgroup # None
                 THEN Contains(g.stab_subgroup[1], sifted)
                 ELSE IsIdentity(sifted)
        ELSE FALSE

\* resize_with(new_len, || None) when the array is too short, then store.
StoreInvCosetRepr(transversal_inv, new_orbit, repr) ==
    LET resized == IF new_orbit >= Len(transversal_inv)
                   THEN transversal_inv \o [k \in 1..(new_orbit + 1 - Len(transversal_inv)) |-> None]
                   ELSE transversal_inv
    IN  [resized EXCEPT ![new_orbit + 1] = Some(repr)]

\* process_orbit that finds the Schreier generator and then leaves the
\* stabilizer subgroup as it was.
ProcessOrbitDropSchreier(g, generator, orbit, queue) ==
    LET inv_coset_repr == InvCosetRepr(g, orbit)[1]
        new_orbit == PermGet(generator, orbit)
        new_inv_coset_repr == InvCosetRepr(g, new_orbit)
    IN  IF new_inv_coset_repr # None
        THEN [group |-> g, queue |-> queue]
        ELSE LET translated_inv_coset_repr ==
                     PermMul(PermInverse(generator), inv_coset_repr)
             IN  [ group |-> [g EXCEPT
                                !.transversal_inv =
                                    StoreInvCosetRepr(@, new_orbit, translated_inv_coset_repr),
                                !.orbits = Append(@, new_orbit)],
                   queue |-> Append(queue, new_orbit) ]

RECURSIVE Extend(_, _)
RECURSIVE ProcessOrbit(_, _, _, _)
RECURSIVE ExtendOrbitLoop(_, _, _, _)
RECURSIVE ExtendQueueLoop(_, _)

\* process_orbit (group.rs:90-124); returns the group and the queue.
ProcessOrbit(g, generator, orbit, queue) ==
    LET inv_coset_repr == InvCosetRepr(g, orbit)[1]
        new_orbit == PermGet(generator, orbit)
        new_inv_coset_repr == InvCosetRepr(g, new_orbit)
    IN  IF new_inv_coset_repr # None
        THEN LET subgroup_generator ==
                     PermMul(PermMul(PermInverse(inv_coset_repr), generator),
                             new_inv_coset_repr[1])
                 non_fixpoint == NonfixIndex(subgroup_generator)
             IN  IF non_fixpoint # None
                 THEN LET subgroup == IF g.stab_subgroup # None
                                      THEN g.stab_subgroup[1]
                                      ELSE GroupNew(non_fixpoint[1])
                      IN  [ group |-> [g EXCEPT !.stab_subgroup =
                                          Some(Extend(subgroup, subgroup_generator))],
                            queue |-> queue ]
                 ELSE [group |-> g, queue |-> queue]
        ELSE LET translated_inv_coset_repr ==
                     PermMul(PermInverse(generator), inv_coset_repr)
             IN  [ group |-> [g EXCEPT
                                !.transversal_inv =
                                    StoreInvCosetRepr(@, new_orbit, translated_inv_coset_repr),
                                !.orbits = Append(@, new_orbit)],
                   queue |-> Append(queue, new_orbit) ]

\* for i in 0..self.orbits.len() (the length taken before the loop); st is
\* the pair of the group and the queue.  The comprehension over a singleton
\* binds the result of the step as a value before the loop goes on.
ExtendOrbitLoop(st, generator, i, len) ==
    IF i >= len THEN st
    ELSE CHOOSE result \in
             { ExtendOrbitLoop(step, generator, i + 1, len) :
                 step \in { ProcessOrbit(st.group, generator,
                                         st.group.orbits[i + 1], st.queue) } } : TRUE

\* while let Some(orbit) = queue.pop_front()
ExtendQueueLoop(st, generator) ==
    IF st.queue = <<>> THEN st.group
    ELSE CHOOSE result \in
             { ExtendQueueLoop(step, generator) :
                 step \in { ProcessOrbit(st.group, generator,
                                         Head(st.queue), Tail(st.queue)) } } : TRUE

\* extend without the contains test: the generator is always taken.
ExtendUnchecked(g, generator) ==
    ExtendQueueLoop(
        ExtendOrbitLoop([group |-> [g EXCEPT !.generators = Append(@, generator)],
                         queue |-> <<>>],
                        generator, 0, Len(g.orbits)),
        generator)

\* PermutationGroup::extend
Extend(g, generator) ==
    IF Contains(g, generator) THEN g
    ELSE ExtendQueueLoop(
             ExtendOrbitLoop([group |-> [g EXCEPT !.generators = Append(@, generator)],
                              queue |-> <<>>],
                             generator, 0, Len(g.orbits)),
             generator)

\* from_generators, the choice of the base: the first Some among the
\* generators' nonfix_index results, None when there is none (the expect
\* then fails).
RECURSIVE FirstNonfix(_, _)
FirstNonfix(generators, i) ==
    IF i > Len(generators) THEN None
    ELSE IF NonfixIndex(generators[i]) # None THEN NonfixIndex(generators[i])
    ELSE FirstNonfix(generators, i + 1)

\* from_generators, the loop: extend by every generator in order.
RECURSIVE ExtendAll(_, _, _)
ExtendAll(g, generators, i) ==
    IF i > Len(generators) THEN g
    ELSE CHOOSE result \in
             { ExtendAll(step, generators, i + 1) :
                 step \in { Extend(g, generators[i]) } } : TRUE

\* PermutationGroup::from_generators; None stands for the failed expect.
FromGenerators(generators) ==
    LET stab_point == FirstNonfix(generators, 1)
    IN  IF stab_point = None THEN None
        ELSE Some(ExtendAll(GroupNew(stab_point[1]), generators, 1))

(***************************************************************************)
(* Term (src/src/term.rs) and TermMap                                      *)
(***************************************************************************)

\* Term::Variable and Term::Operation(left, right)
Variable == <<>>

Operation(left, right) == <<left, right>>

\* the number of leaves, as Term::clone_with_leaf_count counts them
RECURSIVE LeafCount(_)
LeafCount(term) ==
    IF term = Variable THEN 1 ELSE LeafCount(term[1]) + LeafCount(term[2])

\* TermMap::new(source, target, perm): the triple of the data model.
TermMapNew(source, target, perm) ==
    [source |-> source, target |-> target, perm |-> perm]

\* TermMap *= &TermMap: (self.source, rhs.target, i |-> rhs.perm(self.perm(i)))
TermMapMulAssign(self, rhs) ==
    [source |-> self.source, target |-> rhs.target,
     perm |-> PermMulAssign(self.perm, rhs.perm)]

\* TermMap::into_backward: (target, source, inverse permutation)
IntoBackward(map) ==
    [source |-> map.target, target |-> map.source, perm |-> PermInverse(map.perm)]

\* TermMap::into_perm: drops source and target
IntoPerm(map) == map.perm

\* Term::identity_map: (t, t, identity of length leafCount(t))
IdentityMap(term) ==
    TermMapNew(term, term, [k \in 1..LeafCount(term) |-> k - 1])

(***************************************************************************)
(* EquivalenceClasses (src/src/eqclass.rs)                                 *)
(***************************************************************************)

\* EqClassEntry::new_root
NewRoot(term) ==
    [kind |-> "Root", term |-> term, rank |-> 0, automorphisms |-> None]

\* EqClassRootEntry::into_child: keeps the term, drops rank and automorphisms
IntoChild(root, parent, parent_map) ==
    [kind |-> "Child", parent |-> parent, parent_map |-> parent_map, term |-> root.term]

\* entry_for_term without the lookup: a fresh root entry on every call, the
\* side-table re-pointed at it.
EntryForTermAlwaysPush(st, term) ==
    LET pushed == Append(st.entries, NewRoot(term))
    IN  [entries |-> pushed,
         by_shape |-> (term :> (Len(pushed) - 1)) @@ st.by_shape,
         index |-> Len(pushed) - 1]

\* EquivalenceClasses::entry_for_term on the pair (entries, by_shape)
EntryForTerm(st, term) ==
    IF term \in DOMAIN st.by_shape
    THEN [entries |-> st.entries, by_shape |-> st.by_shape, index |-> st.by_shape[term]]
    ELSE LET pushed == Append(st.entries, NewRoot(term))
         IN  [entries |-> pushed,
              by_shape |-> st.by_shape @@ (term :> (Len(pushed) - 1)),
              index |-> Len(pushed) - 1]

\* the compression step that re-points at the grandparent but leaves the
\* parent map as it was.
CompressNoCompose(es, index) ==
    LET child == es[index + 1]
        parent_entry == es[child.parent + 1]
    IN  IF parent_entry.kind = "Child"
        THEN [child EXCEPT !.parent = parent_entry.parent]
        ELSE child

\* the compression step that composes the two parent maps but keeps the
\* entry pointing at its parent.
CompressNoRepoint(es, index) ==
    LET child == es[index + 1]
        parent_entry == es[child.parent + 1]
    IN  IF parent_entry.kind = "Child"
        THEN [child EXCEPT !.parent_map = TermMapMulAssign(@, parent_entry.parent_map)]
        ELSE child

\* the body of find's Some(parent) arm for the entry at index: re-point at the
\* grandparent and compose the two parent maps when the parent is a child.
Compress(es, index) ==
    LET child == es[index + 1]
        parent_entry == es[child.parent + 1]
    IN  IF parent_entry.kind = "Child"
        THEN [child EXCEPT !.parent_map = TermMapMulAssign(@, parent_entry.parent_map),
                           !.parent = parent_entry.parent]
        ELSE child

\* EquivalenceClasses::find; tracking_map is an Option.  get_disjoint_mut
\* fails (the expect panics) when the entry is its own parent.
RECURSIVE Find(_, _, _)
Find(es, index, tracking_map) ==
    IF es[index + 1].kind = "Root"
    THEN [entries |-> es, index |-> index, tracking_map |-> tracking_map, panic |-> FALSE]
    ELSE IF es[index + 1].parent = index
    THEN [entries |-> es, index |-> index, tracking_map |-> tracking_map, panic |-> TRUE]
    ELSE LET child_mut == Compress(es, index)
             tracked == IF tracking_map # None
                        THEN Some(TermMapMulAssign(tracking_map[1], child_mut.parent_map))
                        ELSE None
         IN  Find([es EXCEPT ![index + 1] = child_mut], child_mut.parent, tracked)

\* EquivalenceClasses::find_immut
RECURSIVE FindImmut(_, _, _)
FindImmut(es, index, tracking_map) ==
    IF es[index + 1].kind = "Child"
    THEN FindImmut(es, es[index + 1].parent,
                   TermMapMulAssign(tracking_map, es[index + 1].parent_map))
    ELSE [index |-> index, tracking_map |-> tracking_map]

\* add_equiv, lines 109-114: resolve both entries (target first), find the
\* target's root tracking the map, turn it backward, find the source's root.
\* into_backward inverts the tracked permutation and panics on an array with
\* a value out of bounds.
Resolve(st, map) ==
    LET t == EntryForTerm(st, map.target)
        s == EntryForTerm(t, map.source)
        ft == Find(s.entries, t.index, Some(map))
        target_root_to_source == IntoBackward(ft.tracking_map[1])
        fs == Find(ft.entries, s.index, Some(target_root_to_source))
    IN  [entries |-> fs.entries, by_shape |-> s.by_shape,
         target |-> t.index, source |-> s.index,
         target_root |-> ft.index, source_root |-> fs.index,
         target_root_to_source_root |-> fs.tracking_map[1],
         panic |-> ft.panic \/ fs.panic
                   \/ ~InverseInBounds(ft.tracking_map[1].perm)]

\* lines 116-128 without the nonfix_index test: the group is obtained (at
\* point 0 for the identity) and extended whatever the permutation is.
RecordAutomorphismAlways(es, target_root, target_root_to_source_root) ==
    LET root_entry == es[target_root + 1]
        perm == IntoPerm(target_root_to_source_root)
        non_fixpoint == NonfixIndex(perm)
        automorphisms == IF root_entry.automorphisms # None
                         THEN root_entry.automorphisms[1]
                         ELSE GroupNew(IF non_fixpoint # None THEN non_fixpoint[1] ELSE 0)
    IN  [es EXCEPT ![target_root + 1].automorphisms = Some(Extend(automorphisms, perm))]

\* lines 116-128 with get_or_insert_with but without the extend call.
RecordAutomorphismNoExtend(es, target_root, target_root_to_source_root) ==
    LET root_entry == es[target_root + 1]
        perm == IntoPerm(target_root_to_source_root)
        non_fixpoint == NonfixIndex(perm)
    IN  IF non_fixpoint # None
        THEN LET automorphisms == IF root_entry.automorphisms # None
                                  THEN root_entry.automorphisms[1]
                                  ELSE GroupNew(non_fixpoint[1])
             IN  [es EXCEPT ![target_root + 1].automorphisms = Some(automorphisms)]
        ELSE es

\* add_equiv, lines 116-128: the roots coincide; a non-identity permutation
\* extends the root's group, created on demand at the value nonfix_index gave.
RecordAutomorphism(es, target_root, target_root_to_source_root) ==
    LET root_entry == es[target_root + 1]
        perm == IntoPerm(target_root_to_source_root)
        non_fixpoint == NonfixIndex(perm)
    IN  IF non_fixpoint # None
        THEN LET automorphisms == IF root_entry.automorphisms # None
                                  THEN root_entry.automorphisms[1]
                                  ELSE GroupNew(non_fixpoint[1])
             IN  [es EXCEPT ![target_root + 1].automorphisms =
                                Some(Extend(automorphisms, perm))]
        ELSE es

\* lines 137-143 without the swap of the roles: the source root always
\* survives, whatever the ranks.
UnionByRankNoSwap(es, source_root, target_root, target_root_to_source_root) ==
    LET source_entry == es[source_root + 1]
        target_entry == es[target_root + 1]
    IN  IF source_entry.rank = target_entry.rank
        THEN [entries |-> [es EXCEPT ![source_root + 1].rank = @ + 1],
              source_root |-> source_root, target_root |-> target_root,
              target_root_to_source_root |-> target_root_to_source_root]
        ELSE [entries |-> es, source_root |-> source_root, target_root |-> target_root,
              target_root_to_source_root |-> target_root_to_source_root]

\* lines 137-143 with the roles swapped but the tracked map left as it was.
UnionByRankNoInvert(es, source_root, target_root, target_root_to_source_root) ==
    LET source_entry == es[source_root + 1]
        target_entry == es[target_root + 1]
    IN  IF source_entry.rank < target_entry.rank
        THEN [entries |-> es, source_root |-> target_root, target_root |-> source_root,
              target_root_to_source_root |-> target_root_to_source_root]
        ELSE IF source_entry.rank = target_entry.rank
        THEN [entries |-> [es EXCEPT ![source_root + 1].rank = @ + 1],
              source_root |-> source_root, target_root |-> target_root,
              target_root_to_source_root |-> target_root_to_source_root]
        ELSE [entries |-> es, source_root |-> source_root, target_root |-> target_root,
              target_root_to_source_root |-> target_root_to_source_root]

\* add_equiv, lines 137-143: swap the roles when the source root has the lower
\* rank (inverting the tracked map), bump the source root's rank on a tie.
UnionByRank(es, source_root, target_root, target_root_to_source_root) ==
    LET source_entry == es[source_root + 1]
        target_entry == es[target_root + 1]
    IN  IF source_entry.rank < target_entry.rank
        THEN [entries |-> es, source_root |-> target_root, target_root |-> source_root,
              target_root_to_source_root |-> IntoBackward(target_root_to_source_root)]
        ELSE IF source_entry.rank = target_entry.rank
        THEN [entries |-> [es EXCEPT ![source_root + 1].rank = @ + 1],
              source_root |-> source_root, target_root |-> target_root,
              target_root_to_source_root |-> target_root_to_source_root]
        ELSE [entries |-> es, source_root |-> source_root, target_root |-> target_root,
              target_root_to_source_root |-> target_root_to_source_root]

\* Vec::swap_remove: the element at index is replaced by the last one.
SwapRemove(vec, index) ==
    LET n == Len(vec)
    IN  [k \in 1..(n - 1) |-> IF k = index + 1 THEN vec[n] ELSE vec[k]]

\* the final swap left out: the vector stays as the push left it.
VecSwapNone(vec, a, b) == vec

\* Vec::swap
VecSwap(vec, a, b) ==
    [vec EXCEPT ![a + 1] = vec[b + 1], ![b + 1] = vec[a + 1]]

\* lines 146-153 with the entry pushed back as it was taken out, into_child
\* left out.
DemoteUnconverted(es, source_root, target_root, target_root_to_source_root) ==
    LET target_owned == es[target_root + 1]
        removed == SwapRemove(es, target_root)
        last_index == Len(removed)
        pushed == Append(removed, target_owned)
    IN  VecSwap(pushed, target_root, last_index)

\* lines 146-153 with target_root handed to into_child as the parent.
DemoteUnderItself(es, source_root, target_root, target_root_to_source_root) ==
    LET target_owned == es[target_root + 1]
        removed == SwapRemove(es, target_root)
        last_index == Len(removed)
        pushed == Append(removed,
                         IntoChild(target_owned, target_root, target_root_to_source_root))
    IN  VecSwap(pushed, target_root, last_index)

\* add_equiv, lines 146-153: take the target root out with swap_remove, push
\* it back as a child of the source root, swap it to its old index.
Demote(es, source_root, target_root, target_root_to_source_root) ==
    LET target_owned == es[target_root + 1]
        removed == SwapRemove(es, target_root)
        last_index == Len(removed)
        pushed == Append(removed,
                         IntoChild(target_owned, source_root, target_root_to_source_root))
    IN  VecSwap(pushed, target_root, last_index)

\* EquivalenceClasses::add_equiv on the pair (entries, by_shape)
AddEquivResult(st, map) ==
    LET r == Resolve(st, map)
    IN  IF r.panic
        THEN [entries |-> r.entries, by_shape |-> r.by_shape, panic |-> TRUE]
        ELSE IF r.target_root = r.source_root
        THEN [entries |-> RecordAutomorphism(r.entries, r.target_root,
                                             r.target_root_to_source_root),
              by_shape |-> r.by_shape, panic |-> FALSE]
        ELSE LET u == UnionByRank(r.entries, r.source_root, r.target_root,
                                  r.target_root_to_source_root)
             IN  [entries |-> Demote(u.entries, u.source_root, u.target_root,
                                     u.target_root_to_source_root),
                  by_shape |-> r.by_shape, panic |-> FALSE]

(***************************************************************************)
(* DAG (src/src/tree.rs) and the maps keyed by node address                *)
(* (src/src/maps.rs)                                                       *)
(*                                                                         *)
(* An Rc<DAG<T>> is a record that carries the address of the node it       *)
(* points to next to the node's content, so that Rc::ptr_eq and the        *)
(* *const DAG<T> keys of a TreeMap compare addresses while the derived     *)
(* PartialEq compares content.  A TermRef is the same record with the      *)
(* unit label (term.rs:169 implements the graph trait for it with T = ()). *)
(***************************************************************************)
Leaf(addr, value) == [kind |-> "Leaf", addr |-> addr, value |-> value]

Branch(addr, left, right) ==
    [kind |-> "Branch", addr |-> addr, left |-> left, right |-> right]

\* the label of the leaves of a Term
Unit == "()"

\* DAG::parse on the expression tree of its input (<<label>> is a leaf,
\* <<l, r>> is l * r): every node is a fresh allocation, named here by the
\* allocation id of the call and the node's path from the root
RECURSIVE ParseInner(_, _, _)
ParseInner(input, id, path) ==
    IF Len(input) = 1
    THEN Leaf(<<id, path>>, input[1])
    ELSE Branch(<<id, path>>,
                ParseInner(input[1], id, Append(path, 0)),
                ParseInner(input[2], id, Append(path, 1)))

Parse(input, id) == ParseInner(input, id, <<>>)

\* the derived PartialEq of DAG: content without addresses
RECURSIVE Structure(_)
Structure(node) ==
    IF node.kind = "Leaf"
    THEN <<node.value>>
    ELSE <<Structure(node.left), Structure(node.right)>>

\* walk_leaves: the leaves from left to right
RECURSIVE WalkLeaves(_)
WalkLeaves(node) ==
    IF node.kind = "Leaf"
    THEN <<node>>
    ELSE WalkLeaves(node.left) \o WalkLeaves(node.right)

\* walk: every node, children before their parent
RECURSIVE WalkNodes(_)
WalkNodes(node) ==
    IF node.kind = "Leaf"
    THEN <<node>>
    ELSE WalkNodes(node.left) \o WalkNodes(node.right) \o <<node>>

\* TreeMap::new: no key
TreeMapNew == <<>>

\* TreeMap::insert: the key is the address of `left`
TreeMapInsert(map, left, right) == (left.addr :> right) @@ map

\* the reduction and the leaf labeller of build_pattern_table, threading
\* the table through the post-order walk
RECURSIVE PatternReduce(_, _)
PatternReduce(node, table) ==
    IF node.kind = "Leaf"
    THEN [table |-> table, label |-> 0]
    ELSE CHOOSE result \in
           { IF <<l.label, r.label>> \in DOMAIN r.table
             THEN [table |-> r.table, label |-> r.table[<<l.label, r.label>>]]
             ELSE [table |-> (<<l.label, r.label>> :> (Cardinality(DOMAIN r.table) + 1))
                             @@ r.table,
                   label |-> Cardinality(DOMAIN r.table) + 1]
             : <<l, r>> \in { <<l0, PatternReduce(node.right, l0.table)>>
                              : l0 \in { PatternReduce(node.left, table) } } } : TRUE

\* DAG::build_pattern_table
BuildPatternTable(node) == PatternReduce(node, <<>>).table

\* DAG::reduce as TermIndexing::from uses it: the table of a pattern
\* (the same closure as build_pattern_table)
TermIndexingFrom(value) == PatternReduce(value, <<>>).table

\* IndexedTerm::from
IndexedTermFrom(value) == [term |-> value, index |-> TermIndexingFrom(value)]

\* the table entries whose two labels are among the labels of the children
MatchHits(table, left_labels, right_labels) ==
    { key \in DOMAIN table : key[1] \in left_labels /\ key[2] \in right_labels }

\* the matcher that compares only the left child's labels
MatchStepLeftOnly(node, table, left, right) ==
    LET hits == { key \in DOMAIN table : key[1] \in left.labels }
        sentinel == { key \in hits : table[key] = Cardinality(DOMAIN table) }
    IN  [labels |-> {0} \cup { table[key] : key \in hits },
         matched |-> left.matched \o right.matched
                     \o [i \in 1..Cardinality(sentinel) |-> node]]

\* the matcher that forgets the sites found below a site
MatchStepForgetful(node, table, left, right) ==
    LET hits == MatchHits(table, left.labels, right.labels)
        sentinel == { key \in hits : table[key] = Cardinality(DOMAIN table) }
    IN  [labels |-> {0} \cup { table[key] : key \in hits },
         matched |-> IF sentinel = {} THEN left.matched \o right.matched
                     ELSE <<node>>]

\* the reduction closure of matches / all_matches at a branch: the labels of
\* the node, and the sites matched so far with the node pushed once for
\* every entry that carries the label of the pattern's root
MatchStep(node, table, left, right) ==
    LET hits == MatchHits(table, left.labels, right.labels)
        sentinel == { key \in hits : table[key] = Cardinality(DOMAIN table) }
    IN  [labels |-> {0} \cup { table[key] : key \in hits },
         matched |-> left.matched \o right.matched
                     \o [i \in 1..Cardinality(sentinel) |-> node]]

\* the reduce of matches / all_matches: leaves are labelled {0}
RECURSIVE MatchReduce(_, _)
MatchReduce(node, table) ==
    IF node.kind = "Leaf"
    THEN [labels |-> {0}, matched |-> <<>>]
    ELSE CHOOSE result \in
           { MatchStep(node, table, lr[1], lr[2])
             : lr \in { <<MatchReduce(node.left, table),
                          MatchReduce(node.right, table)>> } } : TRUE

\* DAG::all_matches
AllMatches(self, pattern_table) == MatchReduce(self, pattern_table).matched

\* IndexedTerm::matches
Matches(self, term) == MatchReduce(term, self.index).matched

\* the propagate of from_embedding: needle and haystack walked in lockstep;
\* None is the panic "pattern not embedded at this location"
RECURSIVE Embed(_, _, _)
Embed(needle, embedded, embedding) ==
    IF needle.kind = "Leaf"
    THEN Some(TreeMapInsert(embedding, needle, embedded))
    ELSE IF embedded.kind # "Branch"
    THEN None
    ELSE CHOOSE result \in
           { IF left = None THEN None
             ELSE Embed(needle.right, embedded.right, left[1])
             : left \in { Embed(needle.left, embedded.left, embedding) } } : TRUE

\* TreeMap::from_embedding
FromEmbedding(needle, haystack) == Embed(needle, haystack, TreeMapNew)

\* &TreeMap * &TreeMap: every value of self is looked up in rhs by address;
\* the unwrap of Index panics (None) on a miss
TreeMapMul(self, rhs) ==
    IF \A k \in DOMAIN self : self[k].addr \in DOMAIN rhs
    THEN Some([k \in DOMAIN self |-> rhs[self[k].addr]])
    ELSE None

\* TreeMap *= &TreeMap: the same lookups, in place
TreeMapMulAssign(self, rhs) == TreeMapMul(self, rhs)

\* &TreeBijection * &TreeBijection
TreeBijectionMul(self, rhs) ==
    LET left_to_right == TreeMapMul(self.left_to_right, rhs.left_to_right)
        right_to_left == TreeMapMul(rhs.right_to_left, self.right_to_left)
    IN  IF left_to_right = None \/ right_to_left = None
        THEN None
        ELSE Some([left_to_right |-> left_to_right[1],
                   right_to_left |-> right_to_left[1]])

\* TreeBijection *= TreeBijection
TreeBijectionMulAssign(self, rhs) ==
    LET left_to_right == TreeMapMulAssign(self.left_to_right, rhs.left_to_right)
        right_to_left == TreeMapMulAssign(rhs.right_to_left, self.right_to_left)
    IN  IF left_to_right = None \/ right_to_left = None
        THEN None
        ELSE Some([left_to_right |-> left_to_right[1],
                   right_to_left |-> right_to_left[1]])

\* TreeBijection::insert
TreeBijectionInsert(self, left, right) ==
    [left_to_right |-> TreeMapInsert(self.left_to_right, left, right),
     right_to_left |-> TreeMapInsert(self.right_to_left, right, left)]

\* the label_map of from_labels over the first n leaves of `right`: a later
\* leaf replaces an earlier one with the same label
RECURSIVE LabelMap(_, _)
LabelMap(leaves, n) ==
    IF n = 0 THEN << >>
    ELSE (leaves[n].value :> leaves[n]) @@ LabelMap(leaves, n - 1)

\* the loop of from_labels over the leaves of `left`; None is the panic of
\* the unwrap on a label that `right` does not carry
RECURSIVE InsertByLabel(_, _, _, _)
InsertByLabel(bijection, leaves, i, label_map) ==
    IF i > Len(leaves) THEN Some(bijection)
    ELSE IF leaves[i].value \notin DOMAIN label_map THEN None
    ELSE InsertByLabel(TreeBijectionInsert(bijection, leaves[i],
                                           label_map[leaves[i].value]),
                       leaves, i + 1, label_map)

\* TreeBijection::from_labels
TreeBijectionFromLabels(left, right) ==
    InsertByLabel([left_to_right |-> TreeMapNew, right_to_left |-> TreeMapNew],
                  WalkLeaves(left), 1,
                  LabelMap(WalkLeaves(right), Len(WalkLeaves(right))))

\* TreeEquivalence::from_labels
TreeEquivalenceFromLabels(left, right) ==
    LET bijection == TreeBijectionFromLabels(left, right)
    IN  IF bijection = None THEN None
        ELSE Some([left |-> left, right |-> right,
                   left_pattern_table |-> BuildPatternTable(left),
                   right_pattern_table |-> BuildPatternTable(right),
                   bijection |-> bijection[1]])

\* &TreeEquivalence * &TreeEquivalence: the assert on the identity of the
\* middle node comes first
TreeEquivalenceMul(self, rhs) ==
    IF self.right.addr # rhs.left.addr
    THEN None
    ELSE LET bijection == TreeBijectionMul(self.bijection, rhs.bijection)
         IN  IF bijection = None THEN None
             ELSE Some([bijection |-> bijection[1],
                        left |-> self.left,
                        right |-> rhs.right,
                        left_pattern_table |-> self.left_pattern_table,
                        right_pattern_table |-> rhs.right_pattern_table])

(***************************************************************************)
(* Substitution on terms (src/src/term.rs)                                 *)
(*                                                                         *)
(* The host is a tree of nodes with addresses, because the match root is   *)
(* compared by address; the terms that substitute allocates are given by   *)
(* their content, a Term.  The rewrite bijection is a TermMap              *)
(* (source, target, perm).                                                 *)
(***************************************************************************)
\* the Term a node holds
RECURSIVE TermOf(_)
TermOf(node) ==
    IF node.kind = "Leaf"
    THEN Variable
    ELSE Operation(TermOf(node.left), TermOf(node.right))

\* Term::clone_with_leaf_count: a fresh copy and the number of its leaves
CloneWithLeafCount(self) == <<TermOf(self), LeafCount(TermOf(self))>>

\* TermBijection::source, TermBijection::target
BijectionSource(bijection) == bijection.source

BijectionTarget(bijection) == bijection.target

\* TermBijection::backward()[index]: the source leaf of a target leaf
BijectionBackward(bijection, index) == PermGet(PermInverse(bijection.perm), index)

\* the propagate of substitute over the source of the bijection and the
\* match root: `acc` is <<replacements, replacement_leaf_index>>, None is
\* the panic "match_root not embedded here"
RECURSIVE CollectReplacements(_, _, _)
CollectReplacements(source, embedded_node, acc) ==
    IF acc = None THEN None
    ELSE IF source = Variable
    THEN LET copy == CloneWithLeafCount(embedded_node)
         IN  Some(<<Append(acc[1][1], <<copy[1], acc[1][2], acc[1][2] + copy[2]>>),
                    acc[1][2] + copy[2]>>)
    ELSE IF embedded_node.kind = "Leaf"
    THEN None
    ELSE CHOOSE result \in
           { CollectReplacements(source[2], embedded_node.right, left)
             : left \in { CollectReplacements(source[1], embedded_node.left, acc) } }
           : TRUE

\* the integers of the range a..b (b excluded), in order
Range(a, b) == [i \in 1..(b - a) |-> a + i - 1]

\* the closure of replace_leaves_with_count at the target leaf with the
\* given index: the replacement that takes its place, the range pushed to
\* computed_map and the advanced leaf_index
ReplaceLeaf(replacements, bijection, target_leaf_index, st) ==
    LET translated_index == BijectionBackward(bijection, target_leaf_index)
        replacement == replacements[translated_index + 1][1]
        start == replacements[translated_index + 1][2]
        end == replacements[translated_index + 1][3]
    IN  [result |-> replacement,
         count |-> target_leaf_index + 1,
         leaf_index |-> st.leaf_index + (end - start),
         computed_map |-> st.computed_map
                          \o Range(start + st.leaf_index, end + st.leaf_index)]

\* replace_leaves_with_count over the target of the bijection: leaves are
\* counted from left to right
RECURSIVE ReplaceLeavesWithCount(_, _, _, _)
ReplaceLeavesWithCount(target, replacements, bijection, st) ==
    IF target = Variable
    THEN ReplaceLeaf(replacements, bijection, st.count, st)
    ELSE CHOOSE result \in
           { [right EXCEPT !.result = Operation(left.result, right.result)]
             : <<left, right>> \in
                 { <<l0, ReplaceLeavesWithCount(target[2], replacements, bijection,
                                                [st EXCEPT !.count = l0.count,
                                                           !.leaf_index = l0.leaf_index,
                                                           !.computed_map = l0.computed_map])>>
                   : l0 \in { ReplaceLeavesWithCount(target[1], replacements,
                                                     bijection, st) } } } : TRUE

\* Term::insert_replacements_helper: st carries leaf_index and computed_map
RECURSIVE InsertReplacementsHelper(_, _, _, _, _)
InsertReplacementsHelper(self, match_root, replacements, bijection, st) ==
    IF self.kind = "Leaf"
    THEN [result |-> Variable,
          leaf_index |-> st.leaf_index + 1,
          computed_map |-> Append(st.computed_map, st.leaf_index)]
    ELSE IF self.addr = match_root.addr
    THEN CHOOSE result \in
           { [result |-> r.result, leaf_index |-> r.leaf_index,
              computed_map |-> r.computed_map]
             : r \in { ReplaceLeavesWithCount(BijectionTarget(bijection), replacements,
                                              bijection,
                                              [count |-> 0,
                                               leaf_index |-> st.leaf_index,
                                               computed_map |-> st.computed_map]) } }
           : TRUE
    ELSE CHOOSE result \in
           { [right EXCEPT !.result = Operation(left.result, right.result)]
             : <<left, right>> \in
                 { <<l0, InsertReplacementsHelper(self.right, match_root, replacements,
                                                  bijection,
                                                  [leaf_index |-> l0.leaf_index,
                                                   computed_map |-> l0.computed_map])>>
                   : l0 \in { InsertReplacementsHelper(self.left, match_root,
                                                       replacements, bijection, st) } } }
           : TRUE

\* Term::substitute: the result term and the bijection from the host to
\* it, kept as the backward array it is built from (TermMap::new(self,
\* result, computed_map), upgraded and inverted); None is a panic
Substitute(self, match_root, bijection) ==
    LET collected == CollectReplacements(BijectionSource(bijection), match_root,
                                         Some(<< <<>>, 0 >>))
    IN  IF collected = None THEN None
        ELSE LET helped == InsertReplacementsHelper(
                               self, match_root, collected[1][1], bijection,
                               [leaf_index |-> 0, computed_map |-> <<>>])
             IN  Some([source |-> TermOf(self), target |-> helped.result,
                       backward |-> helped.computed_map])

(***************************************************************************)
(* Substitution on labelled trees (src/src/tree.rs)                        *)
(*                                                                         *)
(* A node that substitue allocates is named by the step that allocates it  *)
(* and the path of the node it is made from (for a clone, the path of the  *)
(* target leaf, a 2, and the path of the cloned node), which gives every   *)
(* allocation an address of its own.  The leaves that insert_at builds     *)
(* below the match root are                                                *)
(* dropped with their keys left in the map; the model keeps those keys     *)
(* (an allocator that reuses the address would overwrite them).            *)
(***************************************************************************)
\* TreeMap::lookup: None is the panic of the unwrap
Lookup(map, node) == IF node.addr \in DOMAIN map THEN Some(map[node.addr]) ELSE None

\* TreeTransformation::embedding_from_labels: every leaf of `before` is sent
\* to the leaf of `after` with its label; None is the panic of the unwrap
EmbeddingFromLabels(before, after) ==
    LET leaves == WalkLeaves(before)
        label_map == LabelMap(WalkLeaves(after), Len(WalkLeaves(after)))
    IN  IF \E i \in 1..Len(leaves) : leaves[i].value \notin DOMAIN label_map
        THEN None
        ELSE Some([k \in { leaves[i].addr : i \in 1..Len(leaves) } |->
                      label_map[leaves[CHOOSE i \in 1..Len(leaves)
                                           : leaves[i].addr = k].value]])

\* TreeTransformation::from_labels
TransformationFromLabels(before, after) ==
    LET target_to_source == EmbeddingFromLabels(after, before)
    IN  IF target_to_source = None THEN None
        ELSE Some([source_pattern_table |-> BuildPatternTable(before),
                   target_to_source |-> target_to_source[1],
                   target |-> after,
                   source |-> before])

\* TreeTransformation::all_matches
TransformationAllMatches(self, haystack) ==
    AllMatches(haystack, self.source_pattern_table)

\* DAG::compute_embedding_table: the lockstep walk of from_embedding
ComputeEmbeddingTable(self, pattern) == Embed(pattern, self, TreeMapNew)

\* DAG::tracked_clone: fresh leaves with the same labels, each recorded in
\* the map as a copy of the leaf it is made from
RECURSIVE TrackedClone(_, _, _)
TrackedClone(self, tag, transform) ==
    IF self.kind = "Leaf"
    THEN [node |-> Leaf(<<tag[1], tag[2] \o self.addr[2]>>, self.value),
          map |-> TreeMapInsert(transform,
                                Leaf(<<tag[1], tag[2] \o self.addr[2]>>, self.value),
                                self)]
    ELSE CHOOSE result \in
           { [node |-> Branch(<<tag[1], tag[2] \o self.addr[2]>>, left.node, right.node),
              map |-> right.map]
             : <<left, right>> \in
                 { <<l0, TrackedClone(self.right, tag, l0.map)>>
                   : l0 \in { TrackedClone(self.left, tag, transform) } } } : TRUE

\* the replace_leaves of substitue over the target of the transformation:
\* every leaf becomes a tracked clone of the host subtree bound to the
\* source leaf it comes from; None is the panic of a lookup
RECURSIVE Replacement(_, _, _, _)
Replacement(target, transform, embedding_map, result_map) ==
    IF target.kind = "Leaf"
    THEN IF Lookup(transform.target_to_source, target) = None
         THEN None
         ELSE IF Lookup(embedding_map, Lookup(transform.target_to_source, target)[1]) = None
         THEN None
         ELSE Some(TrackedClone(
                       Lookup(embedding_map,
                              Lookup(transform.target_to_source, target)[1])[1],
                       <<"clone", Append(target.addr[2], 2)>>, result_map))
    ELSE CHOOSE result \in
           { IF left = None \/ right = None THEN None
             ELSE Some([node |-> Branch(<<"replace", target.addr[2]>>,
                                        left[1].node, right[1].node),
                        map |-> right[1].map])
             : <<left, right>> \in
                 { <<l0, IF l0 = None THEN None
                         ELSE Replacement(target.right, transform, embedding_map,
                                          l0[1].map)>>
                   : l0 \in { Replacement(target.left, transform, embedding_map,
                                          result_map) } } } : TRUE

\* the branch closure that never recognises the root
InsertAtBranchNever(node, root, subtree, left, right) ==
    Branch(<<"insert", node.addr[2]>>, left, right)

\* the branch closure of insert_at: the subtree at the root, a fresh branch
\* over the rebuilt children elsewhere
InsertAtBranch(node, root, subtree, left, right) ==
    IF node.addr = root.addr
    THEN subtree
    ELSE Branch(<<"insert", node.addr[2]>>, left, right)

\* DAG::insert_at: the reduce rebuilds the children before it looks at
\* their parent, so the leaves below the root are copied and recorded too
RECURSIVE InsertAt(_, _, _, _)
InsertAt(self, root, subtree, transform) ==
    IF self.kind = "Leaf"
    THEN [node |-> Leaf(<<"insert", self.addr[2]>>, self.value),
          map |-> TreeMapInsert(transform,
                                Leaf(<<"insert", self.addr[2]>>, self.value), self)]
    ELSE CHOOSE result \in
           { [node |-> InsertAtBranch(self, root, subtree, left.node, right.node),
              map |-> right.map]
             : <<left, right>> \in
                 { <<l0, InsertAt(self.right, root, subtree, l0.map)>>
                   : l0 \in { InsertAt(self.left, root, subtree, transform) } } } : TRUE

\* DAG::substitue: the result and the transformation from the host to it;
\* None is a panic
Substitue(self, root, transform) ==
    LET embedding_map == ComputeEmbeddingTable(root, transform.source)
    IN  IF embedding_map = None THEN None
        ELSE LET replacement == Replacement(transform.target, transform,
                                            embedding_map[1], TreeMapNew)
             IN  IF replacement = None THEN None
                 ELSE LET inserted == InsertAt(self, root, replacement[1].node,
                                               replacement[1].map)
                      IN  Some([result |-> inserted.node,
                                transform |->
                                    [source |-> self,
                                     target |-> inserted.node,
                                     source_pattern_table |-> BuildPatternTable(self),
                                     target_to_source |-> inserted.map]])

(***************************************************************************)
(* TreeTransform (src/src/transform.rs) and the tracked rebuilds of        *)
(* TreeBijection (src/src/maps.rs)                                         *)
(*                                                                         *)
(* A node that apply allocates is named by the pass that allocates it and  *)
(* the path of the node it is made from (for a clone: the path of the      *)
(* target leaf, a 2, and the path of the cloned node).                     *)
(***************************************************************************)

\* TreeTransform::new
TreeTransformNew(equivalence, source_left) ==
    [equivalence |-> equivalence, source_left |-> source_left]

\* TreeEquivalence::left_to_right
LeftToRight(self) == TreeTransformNew(self, TRUE)

\* TreeEquivalence::right_to_left (maps.rs:235-237 passes true as well)
RightToLeft(self) == TreeTransformNew(self, TRUE)

\* TreeTransform::source
TransformSource(self) ==
    IF self.source_left THEN self.equivalence.left ELSE self.equivalence.right

\* TreeTransform::target
TransformTarget(self) ==
    IF self.source_left THEN self.equivalence.right ELSE self.equivalence.left

\* Index<&DAG<T>> for TreeTransform: lookup_right when the source is the
\* left side, lookup_left otherwise; None is the panic of the lookup
TransformIndex(self, index) ==
    IF self.source_left
    THEN Lookup(self.equivalence.bijection.right_to_left, index)
    ELSE Lookup(self.equivalence.bijection.left_to_right, index)

\* TreeTransform::source_embedding
SourceEmbedding(self, root) == FromEmbedding(TransformSource(self), root)

\* TreeTransform::matches: the reduce of all_matches over the pattern table
\* of the source side
TransformMatches(self, tree) ==
    MatchReduce(tree, IF self.source_left
                      THEN self.equivalence.left_pattern_table
                      ELSE self.equivalence.right_pattern_table).matched

\* the names of the allocations of a pass of apply
CloneTag(pass) == IF pass = 1 THEN "clone" ELSE "clone again"

ReplaceTag(pass) == IF pass = 1 THEN "replace" ELSE "replace again"

InsertTag(pass) == IF pass = 1 THEN "insert" ELSE "insert again"

\* TreeBijection::track_clone: fresh leaves with the same labels under fresh
\* branches, every fresh leaf paired with the leaf it is made from
RECURSIVE TrackClone(_, _, _)
TrackClone(self, tree, tag) ==
    IF tree.kind = "Leaf"
    THEN [node |-> Leaf(<<tag[1], tag[2] \o tree.addr[2]>>, tree.value),
          map |-> TreeBijectionInsert(self,
                                      Leaf(<<tag[1], tag[2] \o tree.addr[2]>>, tree.value),
                                      tree)]
    ELSE CHOOSE result \in
           { [node |-> Branch(<<tag[1], tag[2] \o tree.addr[2]>>, left.node, right.node),
              map |-> right.map]
             : <<left, right>> \in
                 { <<l0, TrackClone(l0.map, tree.right, tag)>>
                   : l0 \in { TrackClone(self, tree.left, tag) } } } : TRUE

\* the replace_leaves of apply over the target side: every leaf becomes a
\* tracked clone of the host subtree bound to the source leaf it is paired
\* with; None is the panic of a lookup
RECURSIVE ApplyReplacement(_, _, _, _, _)
ApplyReplacement(self, target, embedding, result_map, pass) ==
    IF target.kind = "Leaf"
    THEN IF TransformIndex(self, target) = None
         THEN None
         ELSE IF Lookup(embedding, TransformIndex(self, target)[1]) = None
         THEN None
         ELSE Some(TrackClone(result_map,
                              Lookup(embedding, TransformIndex(self, target)[1])[1],
                              <<CloneTag(pass), Append(target.addr[2], 2)>>))
    ELSE CHOOSE result \in
           { IF left = None \/ right = None THEN None
             ELSE Some([node |-> Branch(<<ReplaceTag(pass), target.addr[2]>>,
                                        left[1].node, right[1].node),
                        map |-> right[1].map])
             : <<left, right>> \in
                 { <<l0, IF l0 = None THEN None
                         ELSE ApplyReplacement(self, target.right, embedding,
                                               l0[1].map, pass)>>
                   : l0 \in { ApplyReplacement(self, target.left, embedding,
                                               result_map, pass) } } } : TRUE

\* TreeBijection::track_insert over pre_reduce: the node `at` is replaced by
\* `what` without a visit of its children, a branch elsewhere is rebuilt
\* over its rebuilt children, a leaf elsewhere is copied and recorded
RECURSIVE TrackInsert(_, _, _, _, _)
TrackInsert(self, root, at, what, pass) ==
    IF root.addr = at.addr
    THEN [node |-> what, map |-> self]
    ELSE IF root.kind = "Leaf"
    THEN [node |-> Leaf(<<InsertTag(pass), root.addr[2]>>, root.value),
          map |-> TreeBijectionInsert(self,
                                      Leaf(<<InsertTag(pass), root.addr[2]>>, root.value),
                                      root)]
    ELSE CHOOSE result \in
           { [node |-> Branch(<<InsertTag(pass), root.addr[2]>>, left.node, right.node),
              map |-> right.map]
             : <<left, right>> \in
                 { <<l0, TrackInsert(l0.map, root.right, at, what, pass)>>
                   : l0 \in { TrackInsert(self, root.left, at, what, pass) } } } : TRUE

\* TreeEquivalence::new
TreeEquivalenceNew(left, right, bijection) ==
    [left |-> left, right |-> right,
     left_pattern_table |-> BuildPatternTable(left),
     right_pattern_table |-> BuildPatternTable(right),
     bijection |-> bijection]

\* TreeTransform::apply: the result, the equivalence from the result to the
\* host, and the replacement that stands at the site; None is a panic
Apply(self, root, at, pass) ==
    LET embedding == SourceEmbedding(self, at)
    IN  IF embedding = None THEN None
        ELSE LET replacement ==
                     ApplyReplacement(self, TransformTarget(self), embedding[1],
                                      [left_to_right |-> TreeMapNew,
                                       right_to_left |-> TreeMapNew], pass)
             IN  IF replacement = None THEN None
                 ELSE LET inserted == TrackInsert(replacement[1].map, root, at,
                                                  replacement[1].node, pass)
                      IN  Some([result |-> inserted.node,
                                equivalence |-> TreeEquivalenceNew(inserted.node, root,
                                                                   inserted.map),
                                site |-> replacement[1].node])

(***************************************************************************)
(* LabeledTerm (src/src/labeled.rs)                                        *)
(*                                                                         *)
(* A labelled term is the expression tree itself: <<label>> is             *)
(* Variable(label) and <<l, r>> is Operation(l, r).                        *)
(***************************************************************************)

\* LabeledTerm::skeleton: the term with every label mapped to ()
RECURSIVE Skeleton(_)
Skeleton(term) ==
    IF Len(term) = 1 THEN Variable
    ELSE Operation(Skeleton(term[1]), Skeleton(term[2]))

\* walk_leaves with leaf.label().unwrap(): the labels from left to right
RECURSIVE LeafLabels(_)
LeafLabels(term) ==
    IF Len(term) = 1 THEN <<term[1]>>
    ELSE LeafLabels(term[1]) \o LeafLabels(term[2])

\* map_to, the first loop: target_labels.insert(label, target_labels.len()),
\* the length taken before the insert, a label met again overwritten
RECURSIVE TargetLabels(_, _, _)
TargetLabels(labels, i, target_labels) ==
    IF i > Len(labels) THEN target_labels
    ELSE TargetLabels(labels, i + 1,
                      (labels[i] :> Cardinality(DOMAIN target_labels)) @@ target_labels)

\* LabeledTerm::map_to; None is the panic of indexing target_labels by a
\* label it does not hold
MapTo(self, target) ==
    LET target_labels == TargetLabels(LeafLabels(target), 1, << >>)
        labels == LeafLabels(self)
    IN  IF \E i \in 1..Len(labels) : labels[i] \notin DOMAIN target_labels
        THEN None
        ELSE Some(TermMapNew(Skeleton(self), Skeleton(target),
                             [i \in 1..Len(labels) |-> target_labels[labels[i]]]))

(***************************************************************************)
(* The tree enumerators: TreeStructureIterator (src/src/iter.rs) and       *)
(* TreeIterator (src/src/main.rs)                                          *)
(*                                                                         *)
(* An iterator is a record of its fields; next returns the iterator after  *)
(* the call, the item (an Option of the content of the tree, <<Unit>> for  *)
(* a leaf and <<l, r>> for a branch) and whether the call crashed.         *)
(***************************************************************************)
LeafIterator(done) == [kind |-> "LeafIterator", done |-> done]

InnerIterator(done, left, right, left_leaves, right_leaves, right_subtree) ==
    [kind |-> "InnerIterator", done |-> done, left |-> left, right |-> right,
     left_leaves |-> left_leaves, right_leaves |-> right_leaves,
     right_subtree |-> right_subtree]

\* the result of a call of next
Yield(self, item) == [self |-> self, item |-> item, panic |-> FALSE]

Crash(self) == [self |-> self, item |-> None, panic |-> TRUE]

RECURSIVE StructureNew(_)
RECURSIVE StructureNext(_)
\* the enumerator that gives up after its first split
StructureAdvanceStop(self) == Yield([self EXCEPT !.done = TRUE], None)

\* the last branch of TreeStructureIterator::next: both halves are
\* exhausted and the split moves one leaf to the left.  `*right_leaves -= 1`
\* on 0 is an overflow of usize: a debug build panics there, a release
\* build wraps to 2^64 - 1 and then recurses in new(2^64 - 1) until the
\* stack is exhausted; either way the call crashes.
StructureAdvance(self) ==
    IF self.right_leaves = 0
    THEN Crash(self)
    ELSE IF self.right_leaves - 1 = 0
    THEN Yield([self EXCEPT !.done = TRUE,
                            !.left_leaves = self.left_leaves + 1,
                            !.right_leaves = self.right_leaves - 1], None)
    ELSE CHOOSE result \in
           { StructureNext([self EXCEPT !.left_leaves = self.left_leaves + 1,
                                        !.right_leaves = self.right_leaves - 1,
                                        !.left = StructureNew(self.left_leaves + 1),
                                        !.right = first.self,
                                        !.right_subtree = first.item[1]])
             : first \in { StructureNext(StructureNew(self.right_leaves - 1)) } } : TRUE

\* TreeStructureIterator::new
StructureNew(leaves) ==
    IF leaves = 1
    THEN LeafIterator(FALSE)
    ELSE CHOOSE result \in
           { InnerIterator(FALSE, LeafIterator(FALSE), first.self, 1, leaves - 1,
                           first.item[1])
             : first \in { StructureNext(StructureNew(leaves - 1)) } } : TRUE

\* TreeStructureIterator::next
StructureNext(self) ==
    IF self.kind = "LeafIterator"
    THEN IF ~self.done
         THEN Yield(LeafIterator(TRUE), Some(<<Unit>>))
         ELSE Yield(self, None)
    ELSE CHOOSE result \in
           { IF l.panic THEN Crash(self)
             ELSE IF l.item # None
             THEN Yield([self EXCEPT !.left = l.self],
                        Some(<<l.item[1], self.right_subtree>>))
             ELSE CHOOSE inner \in
                    { IF r.panic THEN Crash(self)
                      ELSE IF r.item # None
                      THEN StructureNext([self EXCEPT
                                              !.right = r.self,
                                              !.right_subtree = r.item[1],
                                              !.left = StructureNew(self.left_leaves)])
                      ELSE StructureAdvance([self EXCEPT !.left = l.self,
                                                         !.right = r.self])
                      : r \in { StructureNext(self.right) } } : TRUE
             : l \in { StructureNext(self.left) } } : TRUE

\* TreeIterator of main.rs, built by new_inner
TreeIteratorOf(top_level, left_leaves, leaves, finished, left, right, right_subtree) ==
    [top_level |-> top_level, left_leaves |-> left_leaves, leaves |-> leaves,
     finished |-> finished, left |-> left, right |-> right,
     right_subtree |-> right_subtree]

RECURSIVE NewInner(_)
RECURSIVE NextInner(_)
\* TreeIterator::new_inner
NewInner(leaf_count) ==
    IF leaf_count = 1
    THEN TreeIteratorOf(FALSE, 0, 1, FALSE, None, None, None)
    ELSE CHOOSE result \in
           { TreeIteratorOf(FALSE, 1, leaf_count, FALSE, Some(NewInner(1)),
                            Some(first.self), Some(first.item[1]))
             : first \in { NextInner(NewInner(leaf_count - 1)) } } : TRUE

\* TreeIterator::new
TreeIteratorNew(leaf_count) == [NewInner(leaf_count) EXCEPT !.top_level = TRUE]

\* the end of TreeIterator::next_inner: both halves are exhausted
TreeAdvance(self) ==
    IF self.left_leaves + 1 = self.leaves
    THEN Yield([self EXCEPT !.left_leaves = self.left_leaves + 1,
                            !.finished = TRUE], None)
    ELSE CHOOSE result \in
           { NextInner([self EXCEPT !.left_leaves = self.left_leaves + 1,
                                    !.left = Some(NewInner(self.left_leaves + 1)),
                                    !.right = Some(first.self),
                                    !.right_subtree = Some(first.item[1])])
             : first \in { NextInner(NewInner(self.leaves - (self.left_leaves + 1))) } }
           : TRUE

\* TreeIterator::next_inner (next calls it for every iterator, the copy it
\* makes of the result at the top level has the same content)
NextInner(self) ==
    IF self.finished
    THEN Yield(self, None)
    ELSE IF self.leaves = 1
    THEN Yield([self EXCEPT !.finished = TRUE], Some(<<Unit>>))
    ELSE CHOOSE result \in
           { IF l.item # None
             THEN Yield([self EXCEPT !.left = Some(l.self)],
                        Some(<<l.item[1], self.right_subtree[1]>>))
             ELSE CHOOSE inner \in
                    { IF r.item # None
                      THEN NextInner([self EXCEPT
                                          !.right = Some(r.self),
                                          !.right_subtree = Some(r.item[1]),
                                          !.left = Some(NewInner(self.left_leaves))])
                      ELSE TreeAdvance([self EXCEPT !.left = Some(l.self),
                                                    !.right = Some(r.self)])
                      : r \in { NextInner(self.right[1]) } } : TRUE
             : l \in { NextInner(self.left[1]) } } : TRUE

\* Iterator::next of TreeIterator
TreeIteratorNext(self) == NextInner(self)

(***************************************************************************)
(* Inputs                                                                  *)
(***************************************************************************)

\* The five terms with four leaves and the term with two.
T_A == Operation(Operation(Operation(Variable, Variable), Variable), Variable)

T_B == Operation(Operation(Variable, Operation(Variable, Variable)), Variable)

T_C == Operation(Operation(Variable, Variable), Operation(Variable, Variable))

T_D == Operation(Variable, Operation(Operation(Variable, Variable), Variable))

T_E == Operation(Variable, Operation(Variable, Operation(Variable, Variable)))

T_P == Operation(Variable, Variable)

\* The maps handed to add_equiv: the leaf maps of single rewrite steps on the
\* terms above, (a*b)*c -> a*(b*c) (leaf order kept) and a*b -> b*a (the two
\* blocks of leaves exchanged), at the root or at an inner branch.
AssocMaps ==
    { TermMapNew(T_A, T_B, <<0, 1, 2, 3>>),
      TermMapNew(T_A, T_C, <<0, 1, 2, 3>>),
      TermMapNew(T_B, T_D, <<0, 1, 2, 3>>),
      TermMapNew(T_C, T_E, <<0, 1, 2, 3>>),
      TermMapNew(T_D, T_E, <<0, 1, 2, 3>>) }

CommMaps ==
    { TermMapNew(T_A, T_D, <<1, 2, 3, 0>>),
      TermMapNew(T_B, T_E, <<1, 2, 3, 0>>),
      TermMapNew(T_C, T_C, <<2, 3, 0, 1>>),
      TermMapNew(T_D, T_A, <<3, 0, 1, 2>>),
      TermMapNew(T_E, T_B, <<3, 0, 1, 2>>),
      TermMapNew(T_A, T_A, <<1, 0, 2, 3>>),
      TermMapNew(T_C, T_C, <<0, 1, 3, 2>>),
      TermMapNew(T_P, T_P, <<1, 0>>) }

\* the identity map of a term, which add_equiv takes like any other map
ReflMaps == { IdentityMap(T_P) }

MapPool == AssocMaps \cup CommMaps \cup ReflMaps

\* the number of add_equiv calls of a run
MaxOps == 4

\* the permutations of [0, n) as arrays
PermsOf(n) ==
    { p \in [1..n -> 0..(n - 1)] : \A i, j \in 1..n : p[i] = p[j] => i = j }

\* the points a group's permutations act on
Degree == 3

\* the number of calls (from_generators, extend) on a group under test
MaxExtends == 2

\* every array that is a permutation of [0, n) for some n <= Degree
GroupPerms == UNION { PermsOf(n) : n \in 0..Degree }

\* the generators handed to from_generators: the two of the test in
\* group.rs and the permutation it asks for, three transpositions, and the
\* identity both empty and materialised
FromPerms ==
    { <<1, 2, 0>>, <<3, 1, 2, 0>>, <<1, 2, 3, 0>>,
      <<1, 0>>, <<0, 1, 3, 2>>, <<2, 1, 0>>,
      <<>>, <<0, 1, 2>> }

\* the length of a generator list
MaxGens == 3

\* the generator lists handed to from_generators
GenLists == UNION { [1..n -> FromPerms] : n \in 0..MaxGens }

\* the labelled expressions the equivalences under test are built from:
\* a*(b*c), (b*a)*c and (c*a)*b
Exprs ==
    { << <<"a">>, << <<"b">>, <<"c">> >> >>,
      << << <<"b">>, <<"a">> >>, <<"c">> >>,
      << << <<"c">>, <<"a">> >>, <<"b">> >> }

\* how many times each expression is parsed into nodes of its own
Copies == 2

\* the parsed trees: equal expressions of different copies are equal
\* structurally and are different nodes
Trees == { Parse(input, <<input, copy>>) : input \in Exprs, copy \in 1..Copies }

\* TreeEquivalence::from_labels of every two trees
EquivPool == { TreeEquivalenceFromLabels(left, right)[1] : left, right \in Trees }

\* the expression trees of the terms with the given number of leaves
RECURSIVE ShapesOf(_)
ShapesOf(leaves) ==
    IF leaves = 1
    THEN { <<Unit>> }
    ELSE UNION { { <<left, right>> : left \in ShapesOf(k),
                                     right \in ShapesOf(leaves - k) }
                 : k \in 1..(leaves - 1) }

\* the largest number of leaves of a host term
MaxLeaves == 5

\* the host terms: every term with at most MaxLeaves leaves
Hosts == { Parse(shape, "host") : shape \in UNION { ShapesOf(n) : n \in 1..MaxLeaves } }

\* the patterns: every term with fewer than MaxLeaves leaves, the single
\* leaf included
Patterns ==
    { Parse(shape, "pattern") : shape \in UNION { ShapesOf(n) : n \in 1..(MaxLeaves - 1) } }

\* the rewrite bijections handed to substitute: a*(b*c) -> (b*a)*c of the
\* test in tree.rs, associativity a*(b*c) -> (a*b)*c, and commutativity
\* a*b -> b*a
RuleMaps ==
    { TermMapNew(Operation(Variable, Operation(Variable, Variable)),
                 Operation(Operation(Variable, Variable), Variable), <<1, 0, 2>>),
      TermMapNew(Operation(Variable, Operation(Variable, Variable)),
                 Operation(Operation(Variable, Variable), Variable), <<0, 1, 2>>),
      TermMapNew(Operation(Variable, Variable),
                 Operation(Variable, Variable), <<1, 0>>) }

\* the node of a tree that holds a Term: its leaves carry the unit label
RECURSIVE TermRefAt(_, _, _)
TermRefAt(term, id, path) ==
    IF term = Variable
    THEN Leaf(<<id, path>>, Unit)
    ELSE Branch(<<id, path>>,
                TermRefAt(term[1], id, Append(path, 0)),
                TermRefAt(term[2], id, Append(path, 1)))

\* the labels the tree iterator hands to the leaves of a host, in order
HostLabels == <<"a", "b", "c", "d", "e", "f", "g">>

\* the number of leaves of an expression tree
RECURSIVE ShapeLeaves(_)
ShapeLeaves(shape) ==
    IF Len(shape) = 1 THEN 1 ELSE ShapeLeaves(shape[1]) + ShapeLeaves(shape[2])

\* TreeIterator::next: the skeleton with the labels mapped onto its leaves
\* from left to right
RECURSIVE Labelled(_, _, _)
Labelled(shape, labels, first) ==
    IF Len(shape) = 1
    THEN <<labels[first]>>
    ELSE <<Labelled(shape[1], labels, first),
           Labelled(shape[2], labels, first + ShapeLeaves(shape[1]))>>

\* the haystack of test_match: a*(c*(b*d))
TestHaystack == << <<"a">>, << <<"c">>, << <<"b">>, <<"d">> >> >> >>

\* the two sides of the rule of test_match: a*(b*c) and (b*a)*c
TestLeft == << <<"a">>, << <<"b">>, <<"c">> >> >>

TestRight == << << <<"b">>, <<"a">> >>, <<"c">> >>

\* the results test_match asserts: a*((b*c)*d) and (c*a)*(b*d)
TestInner == << <<"a">>, << << <<"b">>, <<"c">> >>, <<"d">> >> >>

TestOuter == << << <<"c">>, <<"a">> >>, << <<"b">>, <<"d">> >> >>

\* the hosts of substitue: the haystack of the test and every labelled
\* tree with at most MaxLeaves leaves
LabelledHosts ==
    { Parse(TestHaystack, "host") }
    \cup { Parse(Labelled(shape, HostLabels, 1), "host")
           : shape \in UNION { ShapesOf(n) : n \in 1..MaxLeaves } }

\* the rules as pairs of expressions: the rule of the test, associativity
\* in both directions and commutativity
RuleExprs ==
    { <<TestLeft, TestRight>>,
      <<TestLeft, << << <<"a">>, <<"b">> >>, <<"c">> >> >>,
      << << << <<"a">>, <<"b">> >>, <<"c">> >>, TestLeft>>,
      << << <<"a">>, <<"b">> >>, << <<"b">>, <<"a">> >> >> }

\* TreeEquivalence::from_labels(left, right).left_to_right of every rule
TreeRules ==
    { TransformationFromLabels(Parse(rule[1], "left"), Parse(rule[2], "right"))[1]
      : rule \in RuleExprs }

\* how many times next is called on an enumerator after it has ended
MaxNones == 3

\* the letters of the sides of a rule
RuleLetters == {"a", "b"}

\* the shapes of the sides of a rule: up to three leaves
SideShapes ==
    { <<1>>, <<<<1>>, <<2>>>>, <<<<1>>, <<<<2>>, <<3>>>>>>, <<<<<<1>>, <<2>>>>, <<3>>>> }

\* a shape with the letter letters[k] at its k-th leaf
RECURSIVE Lettered(_, _)
Lettered(shape, letters) ==
    IF Len(shape) = 1 THEN <<letters[shape[1]]>>
    ELSE <<Lettered(shape[1], letters), Lettered(shape[2], letters)>>

\* the sides of a rule: every lettering of every shape with the letters a
\* and b, the letter c alone, and the three-letter sides of the rules under
\* test
RuleSides ==
    { Lettered(shape, letters) :
          shape \in SideShapes, letters \in [1..3 -> RuleLetters] }
    \cup { <<"c">>, TestLeft, TestRight }

\* TreeEquivalence::from_labels(left, right) of every rule
RuleEquivalences ==
    { TreeEquivalenceFromLabels(Parse(rule[1], "left"), Parse(rule[2], "right"))[1]
      : rule \in RuleExprs }

\* the rules of the scenarios: associativity (a*b)*c = a*(b*c) and
\* commutativity a*b = b*a, built from their letters
AssocRule ==
    MapTo(<< << <<"a">>, <<"b">> >>, <<"c">> >>, TestLeft)[1]

CommRule ==
    MapTo(<< <<"a">>, <<"b">> >>, << <<"b">>, <<"a">> >>)[1]

\* the largest cap N of a run of the engine
MaxCap == 4

(***************************************************************************)
(* The engine: enumerate, match, substitute, add_equiv                     *)
(*                                                                         *)
(* The loop that feeds the union-find is described by the overview of the  *)
(* specification: every term with at most N leaves is enumerated, every    *)
(* embedding of a side of the rule in it is located, the term is rewritten *)
(* at that site and the map of the rewrite step is added.  Two points the  *)
(* description leaves open are policies of a run: whether the rule is      *)
(* applied from right to left as well, and whether the map handed to       *)
(* add_equiv is the array substitute computes or its inverse.              *)
(***************************************************************************)

\* every tree the enumerator yields before its first None, in order
RECURSIVE Drain(_, _)
Drain(self, items) ==
    CHOOSE result \in
        { IF step.item = None THEN items
          ELSE Drain(step.self, Append(items, step.item[1]))
          : step \in { StructureNext(self) } } : TRUE

\* the terms with 1, 2, ..., leaves leaves, in the order of the enumerator
RECURSIVE EnumerateUpTo(_)
EnumerateUpTo(leaves) ==
    IF leaves = 0 THEN <<>>
    ELSE EnumerateUpTo(leaves - 1) \o Drain(StructureNew(leaves), <<>>)

\* the rewrite steps of one host for one direction of the rule: one for
\* every site matches returns
RewritesAt(host, bijection) ==
    LET matched == Matches(IndexedTermFrom(TermRefAt(bijection.source, "pattern", <<>>)),
                           host)
    IN  [i \in 1..Len(matched) |->
            [kind |-> "rewrite", host |-> host, match_root |-> matched[i],
             bijection |-> bijection]]

\* the work of a run over the terms from position i on: every term is made
\* known to the union-find, then rewritten at every site
RECURSIVE WorkFrom(_, _, _, _)
WorkFrom(terms, i, rule, both) ==
    IF i > Len(terms) THEN <<>>
    ELSE LET host == Parse(terms[i], "host")
         IN  <<[kind |-> "register", host |-> host]>>
             \o RewritesAt(host, rule)
             \o (IF both THEN RewritesAt(host, IntoBackward(rule)) ELSE <<>>)
             \o WorkFrom(terms, i + 1, rule, both)

\* the depth of nested extend calls at which the stack is taken to be
\* exhausted: a chain over the leaf indices of a term has fewer levels
StackLimit == MaxCap + 2

\* extend recurses into the stabilizer subgroup from process_orbit; on an
\* array that is not a permutation the recursion need not end, and the
\* call then dies of stack exhaustion.  The operators below follow the calls
\* of extend and report whether their nesting reaches the limit.
RECURSIVE ExtendOverflows(_, _, _)
RECURSIVE OrbitLoopOverflows(_, _, _, _, _)
RECURSIVE QueueLoopOverflows(_, _, _)

\* whether the extend that process_orbit makes for this orbit element
\* overflows
StepOverflows(g, generator, orbit, depth) ==
    LET inv_coset_repr == InvCosetRepr(g, orbit)[1]
        new_inv_coset_repr == InvCosetRepr(g, PermGet(generator, orbit))
    IN  IF new_inv_coset_repr = None THEN FALSE
        ELSE \E subgroup_generator \in
                 { PermMul(PermMul(PermInverse(inv_coset_repr), generator),
                           new_inv_coset_repr[1]) } :
                 /\ NonfixIndex(subgroup_generator) # None
                 /\ ExtendOverflows(IF g.stab_subgroup # None
                                    THEN g.stab_subgroup[1]
                                    ELSE GroupNew(NonfixIndex(subgroup_generator)[1]),
                                    subgroup_generator, depth - 1)

OrbitLoopOverflows(st, generator, i, len, depth) ==
    IF i >= len THEN QueueLoopOverflows(st, generator, depth)
    ELSE IF StepOverflows(st.group, generator, st.group.orbits[i + 1], depth) THEN TRUE
    ELSE \E step \in { ProcessOrbit(st.group, generator,
                                    st.group.orbits[i + 1], st.queue) } :
             OrbitLoopOverflows(step, generator, i + 1, len, depth)

QueueLoopOverflows(st, generator, depth) ==
    IF st.queue = <<>> THEN FALSE
    ELSE IF StepOverflows(st.group, generator, Head(st.queue), depth) THEN TRUE
    ELSE \E step \in { ProcessOrbit(st.group, generator,
                                    Head(st.queue), Tail(st.queue)) } :
             QueueLoopOverflows(step, generator, depth)

ExtendOverflows(g, generator, depth) ==
    IF depth = 0 THEN TRUE
    ELSE IF Contains(g, generator) THEN FALSE
    ELSE OrbitLoopOverflows([group |-> [g EXCEPT !.generators = Append(@, generator)],
                             queue |-> <<>>],
                            generator, 0, Len(g.orbits), depth)

\* whether add_equiv(map) dies in the extend of the root's group
AddEquivOverflows(st, map) ==
    \E r \in { Resolve(st, map) } :
        /\ ~r.panic
        /\ r.target_root = r.source_root
        /\ NonfixIndex(IntoPerm(r.target_root_to_source_root)) # None
        /\ ExtendOverflows(
               IF r.entries[r.target_root + 1].automorphisms # None
               THEN r.entries[r.target_root + 1].automorphisms[1]
               ELSE GroupNew(NonfixIndex(IntoPerm(r.target_root_to_source_root))[1]),
               IntoPerm(r.target_root_to_source_root), StackLimit)

\* the map of a rewrite step as add_equiv receives it: from the host to the
\* result, with the array substitute computed or with its inverse
StepMap(out, inverted) ==
    TermMapNew(out.source, out.target,
               IF inverted THEN PermInverse(out.backward) ELSE out.backward)

(***************************************************************************)
(* State machine                                                           *)
(***************************************************************************)

\* the block of term in the partition blocks, or the singleton
BlockOf(blocks, term) ==
    IF \E b \in blocks : term \in b
    THEN CHOOSE b \in blocks : term \in b
    ELSE {term}

\* the partition after linking s and t
Link(blocks, s, t) ==
    LET bs == BlockOf(blocks, s)
        bt == BlockOf(blocks, t)
    IN  (blocks \ {bs, bt}) \cup {bs \cup bt}

\* which branch of add_equiv the call takes
Kind(st, map) ==
    LET r == Resolve(st, map)
    IN  IF r.target_root = r.source_root
        THEN IF IsIdentity(r.target_root_to_source_root.perm) THEN "absorb" ELSE "auto"
        ELSE IF r.entries[r.source_root + 1].rank < r.entries[r.target_root + 1].rank
        THEN "swap"
        ELSE IF r.entries[r.source_root + 1].rank = r.entries[r.target_root + 1].rank
        THEN "tie" ELSE "keep"

\* the index of the root the call turns into a child, if it does
Demoted(st, map) ==
    LET r == Resolve(st, map)
    IN  IF r.target_root = r.source_root THEN None
        ELSE IF r.entries[r.source_root + 1].rank < r.entries[r.target_root + 1].rank
        THEN Some(r.source_root)
        ELSE Some(r.target_root)

NoCall == [kind |-> "new", map |-> None, demoted |-> None, ops |-> 0]

NoFeed == [last |-> None, grew |-> FALSE, ops |-> 0, given |-> <<>>]

\* no call of a function under test made yet
NoPure == [op |-> "none"]

\* no tree enumerator under test
NoIter == [k |-> 0]

\* EquivalenceClasses::new(); no group under test.
Init ==
    /\ entries = <<>>
    /\ by_shape = <<>>
    /\ linked = {}
    /\ last = NoCall
    /\ panicked = FALSE
    /\ group = None
    /\ fed = NoFeed
    /\ call = NoPure
    /\ iter = NoIter

\* one call add_equiv(map)
AddEquiv(map) ==
    /\ ~panicked
    /\ last.ops < MaxOps
    /\ LET st == [entries |-> entries, by_shape |-> by_shape]
           res == AddEquivResult(st, map)
       IN  /\ entries' = res.entries
           /\ by_shape' = res.by_shape
           /\ panicked' = res.panic
           /\ last' = [kind |-> Kind(st, map), map |-> Some(map),
                      demoted |-> Demoted(st, map), ops |-> last.ops + 1]
    /\ linked' = Link(linked, map.source, map.target)
    /\ UNCHANGED <<group, fed, call, iter>>

Next == \E map \in MapPool : AddEquiv(map)

Spec == Init /\ [][Next]_vars

\* A permutation group on its own: PermutationGroup::new(stab_point), then
\* extend calls.
InitGroup ==
    /\ entries = <<>>
    /\ by_shape = <<>>
    /\ linked = {}
    /\ last = NoCall
    /\ panicked = FALSE
    /\ group \in { Some(GroupNew(b)) : b \in 0..(Degree - 1) }
    /\ fed = NoFeed
    /\ call = NoPure
    /\ iter = NoIter

\* one call group.extend(perm)
GroupExtend(perm) ==
    /\ group # None
    /\ fed.ops < MaxExtends
    /\ group' = Some(Extend(group[1], perm))
    /\ fed' = [last |-> Some(perm), grew |-> group' # group, ops |-> fed.ops + 1,
               given |-> Append(fed.given, perm)]
    /\ UNCHANGED <<entries, by_shape, linked, last, panicked, call, iter>>

NextGroup == \E perm \in GroupPerms : GroupExtend(perm)

SpecGroup == InitGroup /\ [][NextGroup]_vars

\* A permutation group from from_generators, then extend calls.
InitFrom ==
    /\ entries = <<>>
    /\ by_shape = <<>>
    /\ linked = {}
    /\ last = NoCall
    /\ panicked = FALSE
    /\ group = None
    /\ fed = NoFeed
    /\ call = NoPure
    /\ iter = NoIter

\* one call PermutationGroup::from_generators(generators)
CallFromGenerators(generators) ==
    /\ group = None
    /\ ~panicked
    /\ group' = FromGenerators(generators)
    /\ panicked' = (FromGenerators(generators) = None)
    /\ fed' = [last |-> IF generators = <<>> THEN None
                         ELSE Some(generators[Len(generators)]),
               grew |-> group' # group, ops |-> 1,
               given |-> generators]
    /\ UNCHANGED <<entries, by_shape, linked, last, call, iter>>

NextFrom ==
    \/ \E generators \in GenLists : CallFromGenerators(generators)
    \/ \E perm \in FromPerms : GroupExtend(perm)

SpecFrom == InitFrom /\ [][NextFrom]_vars

\* The functions of a permutation, each applied to arguments drawn from the
\* arrays that are permutations; call holds the arguments and the results.
InitPerm ==
    /\ entries = <<>>
    /\ by_shape = <<>>
    /\ linked = {}
    /\ last = NoCall
    /\ panicked = FALSE
    /\ group = None
    /\ fed = NoFeed
    /\ call = NoPure
    /\ iter = NoIter

\* lhs * rhs by reference and lhs *= rhs on a clone of lhs
Compose(lhs, rhs) ==
    /\ call' = [op |-> "compose", lhs |-> lhs, rhs |-> rhs,
                mul |-> PermMul(lhs, rhs), mul_assign |-> PermMulAssign(lhs, rhs)]
    /\ UNCHANGED <<entries, by_shape, linked, last, panicked, group, fed, iter>>

\* perm.inverse() and the inverse of the result
Invert(perm) ==
    /\ call' = [op |-> "inverse", perm |-> perm, inverse |-> PermInverse(perm),
                back |-> PermInverse(PermInverse(perm))]
    /\ UNCHANGED <<entries, by_shape, linked, last, panicked, group, fed, iter>>

\* perm.nonfix_index() and perm.is_identity()
QueryNonfix(perm) ==
    /\ call' = [op |-> "nonfix", perm |-> perm, nonfix_index |-> NonfixIndex(perm),
                is_identity |-> IsIdentity(perm)]
    /\ UNCHANGED <<entries, by_shape, linked, last, panicked, group, fed, iter>>

NextPerm ==
    \/ \E lhs, rhs \in GroupPerms : Compose(lhs, rhs)
    \/ \E perm \in GroupPerms : Invert(perm)
    \/ \E perm \in GroupPerms : QueryNonfix(perm)

SpecPerm == InitPerm /\ [][NextPerm]_vars

\* ---- compositions of tree equivalences (maps.rs) ----
InitMaps ==
    /\ entries = <<>>
    /\ by_shape = <<>>
    /\ linked = {}
    /\ last = NoCall
    /\ panicked = FALSE
    /\ group = None
    /\ fed = NoFeed
    /\ call = NoPure
    /\ iter = NoIter

\* &lhs * &rhs on two equivalences, and lhs.bijection *= rhs.bijection on a
\* clone; None is a panic
Multiply(lhs, rhs) ==
    /\ call' = [op |-> "mul", lhs |-> lhs, rhs |-> rhs,
                product |-> TreeEquivalenceMul(lhs, rhs),
                assigned |-> TreeBijectionMulAssign(lhs.bijection, rhs.bijection)]
    /\ UNCHANGED <<entries, by_shape, linked, last, panicked, group, fed, iter>>

NextMaps == \E lhs, rhs \in EquivPool : Multiply(lhs, rhs)

SpecMaps == InitMaps /\ [][NextMaps]_vars

\* ---- the pattern index (indexing.rs, tree.rs) ----
InitMatch ==
    /\ entries = <<>>
    /\ by_shape = <<>>
    /\ linked = {}
    /\ last = NoCall
    /\ panicked = FALSE
    /\ group = None
    /\ fed = NoFeed
    /\ call = NoPure
    /\ iter = NoIter

\* IndexedTerm::from(pattern).matches(&host), host.all_matches of the
\* pattern's table, and from_embedding of the pattern at every site returned
Match(pattern, host) ==
    /\ \E matched \in { Matches(IndexedTermFrom(pattern), host) } :
          call' = [op |-> "matches", pattern |-> pattern, host |-> host,
                   matched |-> matched,
                   all_matches |-> AllMatches(host, BuildPatternTable(pattern)),
                   embeddings |-> [i \in 1..Len(matched) |->
                                      FromEmbedding(pattern, matched[i])]]
    /\ UNCHANGED <<entries, by_shape, linked, last, panicked, group, fed, iter>>

NextMatch == \E pattern \in Patterns, host \in Hosts : Match(pattern, host)

SpecMatch == InitMatch /\ [][NextMatch]_vars

\* ---- substitution on terms (term.rs) ----
InitSubst ==
    /\ entries = <<>>
    /\ by_shape = <<>>
    /\ linked = {}
    /\ last = NoCall
    /\ panicked = FALSE
    /\ group = None
    /\ fed = NoFeed
    /\ call = NoPure
    /\ iter = NoIter

\* host.substitute(match_root, bijection) at a site that matches of the
\* bijection's source returns for the host
SubstituteAt(host, bijection) ==
    /\ \E matched \in { Matches(IndexedTermFrom(TermRefAt(bijection.source, "pattern", <<>>)),
                                host) } :
          \E i \in 1..Len(matched) :
              call' = [op |-> "substitute", host |-> host, bijection |-> bijection,
                       match_root |-> matched[i],
                       out |-> Substitute(host, matched[i], bijection)]
    /\ UNCHANGED <<entries, by_shape, linked, last, panicked, group, fed, iter>>

NextSubst == \E host \in Hosts, bijection \in RuleMaps : SubstituteAt(host, bijection)

SpecSubst == InitSubst /\ [][NextSubst]_vars

\* ---- substitution on labelled trees (tree.rs) ----
InitTree ==
    /\ entries = <<>>
    /\ by_shape = <<>>
    /\ linked = {}
    /\ last = NoCall
    /\ panicked = FALSE
    /\ group = None
    /\ fed = NoFeed
    /\ call = NoPure
    /\ iter = NoIter

\* transform.all_matches(&host) and host.substitue(&matched[site - 1],
\* transform), as test_match calls them
SubstitueAt(host, transform) ==
    /\ \E matched \in { TransformationAllMatches(transform, host) } :
          \E site \in 1..Len(matched) :
              call' = [op |-> "substitue", host |-> host, transform |-> transform,
                       matched |-> matched, site |-> site,
                       out |-> Substitue(host, matched[site], transform)]
    /\ UNCHANGED <<entries, by_shape, linked, last, panicked, group, fed, iter>>

NextTree == \E host \in LabelledHosts, transform \in TreeRules : SubstitueAt(host, transform)

SpecTree == InitTree /\ [][NextTree]_vars

\* ---- the tree enumerators (iter.rs, main.rs) ----
\* both enumerators are created for the same number of leaves
InitIter ==
    /\ entries = <<>>
    /\ by_shape = <<>>
    /\ linked = {}
    /\ last = NoCall
    /\ panicked = FALSE
    /\ group = None
    /\ fed = NoFeed
    /\ call = NoPure
    /\ \E k \in 1..MaxLeaves :
          iter = [k |-> k,
                  structure |-> StructureNew(k), tree |-> TreeIteratorNew(k),
                  structure_items |-> <<>>, tree_items |-> <<>>,
                  structure_calls |-> 0, tree_calls |-> 0,
                  structure_nones |-> 0, tree_nones |-> 0,
                  structure_panicked |-> FALSE, tree_panicked |-> FALSE]

\* one call of TreeStructureIterator::next
CallStructureNext ==
    /\ iter.k # 0
    /\ ~iter.structure_panicked
    /\ iter.structure_nones < MaxNones
    /\ \E r \in { StructureNext(iter.structure) } :
          iter' = [iter EXCEPT
                      !.structure = r.self,
                      !.structure_calls = iter.structure_calls + 1,
                      !.structure_items =
                          IF r.item = None THEN iter.structure_items
                          ELSE Append(iter.structure_items, r.item[1]),
                      !.structure_nones =
                          IF r.item = None /\ ~r.panic THEN iter.structure_nones + 1
                          ELSE iter.structure_nones,
                      !.structure_panicked = r.panic]
    /\ UNCHANGED <<entries, by_shape, linked, last, panicked, group, fed, call>>

\* one call of TreeIterator::next
CallTreeNext ==
    /\ iter.k # 0
    /\ ~iter.tree_panicked
    /\ iter.tree_nones < MaxNones
    /\ \E r \in { TreeIteratorNext(iter.tree) } :
          iter' = [iter EXCEPT
                      !.tree = r.self,
                      !.tree_calls = iter.tree_calls + 1,
                      !.tree_items =
                          IF r.item = None THEN iter.tree_items
                          ELSE Append(iter.tree_items, r.item[1]),
                      !.tree_nones =
                          IF r.item = None /\ ~r.panic THEN iter.tree_nones + 1
                          ELSE iter.tree_nones,
                      !.tree_panicked = r.panic]
    /\ UNCHANGED <<entries, by_shape, linked, last, panicked, group, fed, call>>

NextIter == CallStructureNext \/ CallTreeNext

SpecIter == InitIter /\ [][NextIter]_vars

\* The leaf bijection of a rule left = right built from the letters, both as
\* a TermMap and as a TreeBijection; None is a panic.
InitRule ==
    /\ entries = <<>>
    /\ by_shape = <<>>
    /\ linked = {}
    /\ last = NoCall
    /\ panicked = FALSE
    /\ group = None
    /\ fed = NoFeed
    /\ call = NoPure
    /\ iter = NoIter

\* left.map_to(right) and TreeBijection::from_labels(&left, &right)
BuildRule(left, right) ==
    /\ call' = [op |-> "rule", left |-> left, right |-> right,
                map |-> MapTo(left, right),
                bijection |-> TreeBijectionFromLabels(Parse(left, "left"),
                                                      Parse(right, "right"))]
    /\ UNCHANGED <<entries, by_shape, linked, last, panicked, group, fed, iter>>

NextRule == \E left, right \in RuleSides : BuildRule(left, right)

SpecRule == InitRule /\ [][NextRule]_vars

\* The two transforms of a rule, matched against a host and applied one
\* after the other.
InitTransform ==
    /\ entries = <<>>
    /\ by_shape = <<>>
    /\ linked = {}
    /\ last = NoCall
    /\ panicked = FALSE
    /\ group = None
    /\ fed = NoFeed
    /\ call = NoPure
    /\ iter = NoIter

\* equivalence.left_to_right().matches(&host) and
\* equivalence.right_to_left().matches(&host)
MatchBothWays(equivalence, host) ==
    /\ call' = [op |-> "directions", equivalence |-> equivalence, host |-> host,
                forward |-> TransformMatches(LeftToRight(equivalence), host),
                backward |-> TransformMatches(RightToLeft(equivalence), host)]
    /\ UNCHANGED <<entries, by_shape, linked, last, panicked, group, fed, iter>>

\* equivalence.left_to_right().apply(&host, &matched[site - 1]), then
\* equivalence.right_to_left().apply(&result, &replacement) where the
\* replacement stands in the result; None is a panic
ApplyBothWays(equivalence, host) ==
    /\ \E matched \in { TransformMatches(LeftToRight(equivalence), host) } :
          \E site \in 1..Len(matched) :
              \E there \in { Apply(LeftToRight(equivalence), host, matched[site], 1) } :
                  call' = [op |-> "round trip", equivalence |-> equivalence,
                           host |-> host, at |-> matched[site],
                           there |-> there,
                           back |-> IF there = None THEN None
                                    ELSE Apply(RightToLeft(equivalence),
                                               there[1].result, there[1].site, 2)]
    /\ UNCHANGED <<entries, by_shape, linked, last, panicked, group, fed, iter>>

NextTransform ==
    \/ \E equivalence \in RuleEquivalences, host \in LabelledHosts :
           MatchBothWays(equivalence, host)
    \/ \E equivalence \in RuleEquivalences, host \in LabelledHosts :
           ApplyBothWays(equivalence, host)

SpecTransform == InitTransform /\ [][NextTransform]_vars

\* ---- the engine ----
\* a run for one rule, one cap and one policy; call holds the work left
InitEngine ==
    /\ entries = <<>>
    /\ by_shape = <<>>
    /\ linked = {}
    /\ last = NoCall
    /\ panicked = FALSE
    /\ group = None
    /\ fed = NoFeed
    /\ iter = NoIter
    /\ \E rule \in {"assoc", "comm"}, cap \in 2..MaxCap, both, inverted \in BOOLEAN :
           call = [op |-> "engine", rule |-> rule, cap |-> cap,
                   both |-> both, inverted |-> inverted,
                   work |-> WorkFrom(EnumerateUpTo(cap), 1,
                                     IF rule = "assoc" THEN AssocRule ELSE CommRule,
                                     both)]

\* the next term is made known: add_equiv of its identity map
EngineRegister ==
    /\ call.op = "engine"
    /\ ~panicked
    /\ call.work # <<>>
    /\ Head(call.work).kind = "register"
    /\ LET term == TermOf(Head(call.work).host)
           res == AddEquivResult([entries |-> entries, by_shape |-> by_shape],
                                 IdentityMap(term))
       IN  /\ entries' = res.entries
           /\ by_shape' = res.by_shape
           /\ panicked' = res.panic
           /\ linked' = Link(linked, term, term)
    /\ call' = [call EXCEPT !.work = Tail(@)]
    /\ UNCHANGED <<last, group, fed, iter>>

\* the next rewrite step: substitute at the site, add_equiv of the map
EngineRewrite ==
    /\ call.op = "engine"
    /\ ~panicked
    /\ call.work # <<>>
    /\ Head(call.work).kind = "rewrite"
    /\ \E out \in { Substitute(Head(call.work).host, Head(call.work).match_root,
                               Head(call.work).bijection) } :
           IF \/ out = None
              \/ (call.inverted /\ ~InverseInBounds(out[1].backward))
              \/ AddEquivOverflows([entries |-> entries, by_shape |-> by_shape],
                                   StepMap(out[1], call.inverted))
           THEN /\ panicked' = TRUE
                /\ UNCHANGED <<entries, by_shape, linked>>
           ELSE \E res \in { AddEquivResult([entries |-> entries, by_shape |-> by_shape],
                                            StepMap(out[1], call.inverted)) } :
                    /\ entries' = res.entries
                    /\ by_shape' = res.by_shape
                    /\ panicked' = res.panic
                    /\ linked' = Link(linked, out[1].source, out[1].target)
    /\ call' = [call EXCEPT !.work = Tail(@)]
    /\ UNCHANGED <<last, group, fed, iter>>

NextEngine == EngineRegister \/ EngineRewrite

SpecEngine == InitEngine /\ [][NextEngine]_vars

(***************************************************************************)
(* Observers of a union-find state                                         *)
(***************************************************************************)

Indices(es) == 0..(Len(es) - 1)

\* the root reached from index by at most fuel parent steps, None when the
\* steps run out
RECURSIVE Walk(_, _, _)
Walk(es, index, fuel) ==
    IF es[index + 1].kind = "Root" THEN Some(index)
    ELSE IF fuel = 0 THEN None
    ELSE Walk(es, es[index + 1].parent, fuel - 1)

RootOf(es, index) == Walk(es, index, Len(es))

\* the number of parent steps from index to its root, at most fuel
RECURSIVE Steps(_, _, _)
Steps(es, index, fuel) ==
    IF es[index + 1].kind = "Root" \/ fuel = 0 THEN 0
    ELSE 1 + Steps(es, es[index + 1].parent, fuel - 1)

ChainLength(es, index) == Steps(es, index, Len(es))

\* the entries whose root is the entry root
ClassOf(es, root) == { i \in Indices(es) : RootOf(es, i) = Some(root) }

RECURSIVE Pow2(_)
Pow2(n) == IF n = 0 THEN 1 ELSE 2 * Pow2(n - 1)

\* the map from entry index to its root that find_immut composes
MapToRoot(es, index) == FindImmut(es, index, IdentityMap(es[index + 1].term))

(***************************************************************************)
(* Properties of the union-find                                            *)
(***************************************************************************)

\* C1: after any sequence of add_equiv calls two terms have the same root
\* entry exactly when a chain of added maps connects them (they lie in the
\* same block of linked); and find, run on the source and on the target of
\* the map added last, returns the same root.
C1_SameRootIffLinked ==
    /\ \A s, t \in DOMAIN by_shape :
           (RootOf(entries, by_shape[s]) = RootOf(entries, by_shape[t]))
               <=> (BlockOf(linked, s) = BlockOf(linked, t))
    /\ last.map # None =>
           LET map == last.map[1]
               fs == Find(entries, by_shape[map.source], None)
               ft == Find(fs.entries, by_shape[map.target], None)
           IN  ~fs.panic /\ ~ft.panic /\ fs.index = ft.index

\* three terms joined by a chain of two maps while another class exists
C1_Witness ==
    /\ Cardinality(linked) >= 2
    /\ \E b \in linked : Cardinality(b) >= 3
    /\ \E s, t \in DOMAIN by_shape :
           /\ s # t
           /\ RootOf(entries, by_shape[s]) = RootOf(entries, by_shape[t])
           /\ \A map \in MapPool : {map.source, map.target} # {s, t}

\* C2: find(i) with path compression leaves, for every entry j, the root
\* reached from j and the composed map (source, target, perm) from j to
\* that root as find_immut computes them on the state before the call.
C2_CompressionPreservesMaps ==
    \A i, j \in Indices(entries) :
        LET after == Find(entries, i, None).entries
        IN  MapToRoot(after, j) = MapToRoot(entries, j)

\* a find that re-points an entry whose composed map is not the identity
C2_Witness ==
    \E i \in Indices(entries) :
        LET after == Find(entries, i, None).entries
        IN  /\ after # entries
            /\ \E j \in Indices(entries) :
                   /\ after[j + 1] # entries[j + 1]
                   /\ ~IsIdentity(MapToRoot(entries, j).tracking_map.perm)

\* C3: the parent links are acyclic: from every entry the parent steps
\* reach a root within as many steps as there are entries, no child is its
\* own parent, and find returns a root for every entry without failing.
C3_ParentsAcyclic ==
    /\ ~panicked
    /\ \A i \in Indices(entries) :
           /\ RootOf(entries, i) # None
           /\ entries[i + 1].kind = "Child" => entries[i + 1].parent # i
           /\ LET f == Find(entries, i, None)
              IN  ~f.panic /\ f.entries[f.index + 1].kind = "Root"
                  /\ Some(f.index) = RootOf(entries, i)

\* an entry two parent steps away from its root
C3_Witness ==
    \E i \in Indices(entries) : ChainLength(entries, i) >= 2

\* C4: every term that was the source or the target of an added map has
\* one side-table key and is the term of one entry, the one at the index
\* the side-table gives; distinct terms have distinct indices, and there
\* are as many entries as keys.
C4_SideTableBijection ==
    /\ DOMAIN by_shape = UNION linked
    /\ \A term \in DOMAIN by_shape :
           /\ by_shape[term] \in Indices(entries)
           /\ entries[by_shape[term] + 1].term = term
    /\ \A i \in Indices(entries) :
           /\ entries[i + 1].term \in DOMAIN by_shape
           /\ by_shape[entries[i + 1].term] = i
    /\ \A s, t \in DOMAIN by_shape : s # t => by_shape[s] # by_shape[t]
    /\ Len(entries) = Cardinality(DOMAIN by_shape)

\* four terms known, one of them demoted from an index below the last
C4_Witness ==
    /\ Len(entries) >= 4
    /\ last.demoted # None
    /\ last.demoted[1] < Len(entries) - 1

\* C5: the parent chain from an entry to its root is no longer than the
\* root's rank, a root of rank r heads a class of at least 2^r entries, and
\* so 2^(chain length) never exceeds the number of entries.
C5_RankBoundsHeight ==
    \A i \in Indices(entries) :
        /\ RootOf(entries, i) # None
        /\ ChainLength(entries, i) <= entries[RootOf(entries, i)[1] + 1].rank
        /\ Pow2(ChainLength(entries, i)) <= Len(entries)
        /\ entries[i + 1].kind = "Root" =>
               Cardinality(ClassOf(entries, i)) >= Pow2(entries[i + 1].rank)

\* a root of rank 2 with an entry two steps below it
C5_Witness ==
    \E i \in Indices(entries) :
        /\ ChainLength(entries, i) = 2
        /\ entries[RootOf(entries, i)[1] + 1].rank = 2

\* the state add_equiv(map) is in after lines 109-114, computed from the
\* state before the call; the properties bind it once, as the one element
\* of a set
Resolved(map) == Resolve([entries |-> entries, by_shape |-> by_shape], map)

\* of the two roots the call found, the one with the lower rank (the target
\* root on a tie) and the other one
LowerRoot(r) ==
    IF r.entries[r.source_root + 1].rank < r.entries[r.target_root + 1].rank
    THEN r.source_root ELSE r.target_root

HigherRoot(r) ==
    IF r.entries[r.source_root + 1].rank < r.entries[r.target_root + 1].rank
    THEN r.target_root ELSE r.source_root

IsUnion(kind) == kind \in {"swap", "tie", "keep"}

\* C6: when add_equiv finds two distinct roots, the one with the lower rank
\* (one of the two on a tie) becomes a child of the other; on a tie the
\* surviving root's rank grows by exactly 1, otherwise it stays, and no
\* other root's rank changes; the new child's parent map leads from the
\* child's term to the surviving root's term and is the tracked map,
\* inverted exactly when the source root is the one demoted.
C6_UnionByRank ==
    [][ IsUnion(last'.kind) =>
            \A r \in { Resolved(last'.map[1]) } :
            LET lower == LowerRoot(r)
                higher == HigherRoot(r)
                tie == r.entries[lower + 1].rank = r.entries[higher + 1].rank
                tracked == r.target_root_to_source_root
                child == entries'[lower + 1]
            IN  /\ r.entries[lower + 1].rank <= r.entries[higher + 1].rank
                /\ child.kind = "Child"
                /\ child.parent = higher
                /\ entries'[higher + 1].kind = "Root"
                /\ entries'[higher + 1].rank =
                       r.entries[higher + 1].rank + (IF tie THEN 1 ELSE 0)
                /\ \A i \in Indices(r.entries) \ {lower, higher} :
                       r.entries[i + 1].kind = "Root" =>
                           /\ entries'[i + 1].kind = "Root"
                           /\ entries'[i + 1].rank = r.entries[i + 1].rank
                /\ child.term = r.entries[lower + 1].term
                /\ child.parent_map.source = child.term
                /\ child.parent_map.target = entries'[higher + 1].term
                /\ child.parent_map =
                       IF lower = r.source_root THEN IntoBackward(tracked) ELSE tracked
                /\ (lower = r.source_root) <=> (last'.kind = "swap")
      ]_vars

\* after a call that swapped the roles: the demoted root carries a parent
\* map that is not the identity
C6_Witness ==
    /\ last.kind = "swap"
    /\ last.demoted # None
    /\ entries[last.demoted[1] + 1].kind = "Child"
    /\ ~IsIdentity(entries[last.demoted[1] + 1].parent_map.perm)

\* C7: the union step changes the demoted root's entry (a child now, same
\* term, same index) and the surviving root's rank, nothing else: every
\* other entry is as the two find calls left it, the vector keeps its
\* length and the side-table is as entry_for_term left it.
C7_UnionFrame ==
    [][ IsUnion(last'.kind) =>
            \A r \in { Resolved(last'.map[1]) } :
            LET lower == LowerRoot(r)
                higher == HigherRoot(r)
            IN  /\ Len(entries') = Len(r.entries)
                /\ by_shape' = r.by_shape
                /\ \A i \in Indices(r.entries) \ {lower, higher} :
                       entries'[i + 1] = r.entries[i + 1]
                /\ entries'[lower + 1].kind = "Child"
                /\ entries'[higher + 1].kind = "Root"
                /\ entries'[higher + 1] =
                       [r.entries[higher + 1] EXCEPT !.rank = entries'[higher + 1].rank]
                /\ entries'[lower + 1].term = r.entries[lower + 1].term
      ]_vars

\* after a union that demoted the root held by the last entry of a vector
\* of at least three entries
C7_Witness ==
    /\ IsUnion(last.kind)
    /\ Len(entries) >= 3
    /\ last.demoted = Some(Len(entries) - 1)
    /\ entries[Len(entries)].kind = "Child"

\* C8: add_equiv of a map whose ends have the same root and whose composed
\* root-to-root permutation is the identity records nothing: the entries
\* are as the two find calls left them, so every entry keeps its kind, every
\* root its rank and its automorphism group, and every entry its root.
C8_IdentityAbsorbed ==
    [][ last'.kind = "absorb" =>
            \A r \in { Resolved(last'.map[1]) } :
                /\ entries' = r.entries
                /\ by_shape' = r.by_shape
                /\ \A i \in Indices(entries) :
                       /\ entries'[i + 1].kind = entries[i + 1].kind
                       /\ RootOf(entries', i) = RootOf(entries, i)
                       /\ entries[i + 1].kind = "Root" =>
                              /\ entries'[i + 1].rank = entries[i + 1].rank
                              /\ entries'[i + 1].automorphisms = entries[i + 1].automorphisms
                /\ \A i \in Indices(entries') \ Indices(entries) :
                       entries'[i + 1] = NewRoot(last'.map[1].source)
      ]_vars

\* after an absorbed map between two distinct terms of a class whose root
\* has no group yet
C8_Witness ==
    /\ last.kind = "absorb"
    /\ last.map[1].source # last.map[1].target
    /\ RootOf(entries, by_shape[last.map[1].source]) # None
    /\ entries[RootOf(entries, by_shape[last.map[1].source])[1] + 1].automorphisms = None

\* whether perm is a bijection of [0, n) given as an array of length n
IsBijection(perm, n) ==
    /\ Len(perm) = n
    /\ \A k \in 1..n : perm[k] \in 0..(n - 1)
    /\ \A k, l \in 1..n : perm[k] = perm[l] => k = l

\* C9: when add_equiv finds one root for both ends and a composed map with
\* a non-identity permutation, that map leads from the root's term to the
\* root's term, its permutation is a bijection of the term's leaf indices,
\* and the root's group contains it after the call; and every generator of
\* every root's group is a bijection of the root term's leaf indices.
C9_AutomorphismRecorded ==
    [][ /\ last'.kind = "auto" =>
               \A r \in { Resolved(last'.map[1]) } :
               LET root == r.target_root
                   composed == r.target_root_to_source_root
                   term == r.entries[root + 1].term
               IN  /\ composed.source = term
                   /\ composed.target = term
                   /\ IsBijection(composed.perm, LeafCount(term))
                   /\ entries'[root + 1].kind = "Root"
                   /\ entries'[root + 1].automorphisms # None
                   /\ Contains(entries'[root + 1].automorphisms[1], composed.perm)
        /\ \A i \in Indices(entries') :
               (entries'[i + 1].kind = "Root" /\ entries'[i + 1].automorphisms # None) =>
                   \A k \in 1..Len(entries'[i + 1].automorphisms[1].generators) :
                       IsBijection(entries'[i + 1].automorphisms[1].generators[k],
                                   LeafCount(entries'[i + 1].term))
      ]_vars

\* after a map between two distinct terms whose composition along the
\* class gave a second generator to the root's group
C9_Witness ==
    /\ last.kind = "auto"
    /\ last.map[1].source # last.map[1].target
    /\ \E i \in Indices(entries) :
           /\ entries[i + 1].kind = "Root"
           /\ entries[i + 1].automorphisms # None
           /\ Len(entries[i + 1].automorphisms[1].generators) >= 2

(***************************************************************************)
(* Properties of the permutation group                                     *)
(***************************************************************************)

\* C10: right after extend(perm) the group contains perm, and a permutation
\* the group contains before an extend call it contains after the call, so
\* contains(perm) stays true through every later extend.
C10_ExtendThenContains ==
    [][ /\ Contains(group'[1], fed'.last[1])
        /\ \A perm \in GroupPerms :
               Contains(group[1], perm) => Contains(group'[1], perm)
      ]_vars

\* after two extend calls that each changed the group, the second one
\* below the top level as well
C10_Witness ==
    /\ fed.ops = 2
    /\ fed.grew
    /\ Len(group[1].generators) = 2
    /\ group[1].stab_subgroup # None
    /\ group[1].generators[1] # group[1].generators[2]

\* the orbit of the point under the generators: the least set holding the
\* point and closed under every generator
RECURSIVE OrbitClosure(_, _)
OrbitClosure(generators, points) ==
    LET images == points \cup { PermGet(generators[k], x) :
                                k \in 1..Len(generators), x \in points }
    IN  IF images = points THEN points ELSE OrbitClosure(generators, images)

\* C11: the group contains the product of any two of the generators it
\* took, and the orbit it stores is the full orbit of the base point under
\* these generators.
C11_ProductsContained ==
    group # None =>
        /\ \A i, j \in 1..Len(group[1].generators) :
               Contains(group[1], PermMul(group[1].generators[i], group[1].generators[j]))
        /\ { group[1].orbits[k] : k \in 1..Len(group[1].orbits) }
               = OrbitClosure(group[1].generators, {group[1].stab_point})

NotIdentity(perm) == ~IsIdentity(perm)

\* no generator of any level of the group is the identity
RECURSIVE NoIdentityGenerator(_)
NoIdentityGenerator(g) ==
    /\ \A k \in 1..Len(g.generators) : NotIdentity(g.generators[k])
    /\ g.stab_subgroup # None => NoIdentityGenerator(g.stab_subgroup[1])

\* C12 as stated: from_generators does not fail on a list that holds
\* identity generators, and an extend by a permutation the group contains
\* changes nothing.
C12_IdentityNeverFails ==
    [][ /\ (group # None /\ group' # None /\ Contains(group[1], fed'.last[1]))
               => group' = group
        /\ (group = None /\ \E k \in 1..Len(fed'.given) : IsIdentity(fed'.given[k]))
               => (group' # None /\ ~panicked')
      ]_vars

\* C12, amended: an extend by a permutation the group contains (the
\* identity of any length among them) leaves the group as it is at every
\* level; from_generators on a list with at least one generator that is not
\* the identity does not fail and builds the group it builds from the list
\* without its identity generators, and no level holds an identity
\* generator.
C12_ContainedIsNoOp ==
    [][ /\ (group # None /\ group' # None /\ Contains(group[1], fed'.last[1]))
               => group' = group
        /\ (group # None /\ group' # None /\ IsIdentity(fed'.last[1]))
               => group' = group
        /\ (group = None /\ SelectSeq(fed'.given, NotIdentity) # <<>>)
               => /\ group' # None
                  /\ ~panicked'
                  /\ group' = FromGenerators(SelectSeq(fed'.given, NotIdentity))
        /\ group' # None => NoIdentityGenerator(group'[1])
      ]_vars

\* a group from a list that began with an identity, extended afterwards by
\* a materialised identity without any change
C12_Witness ==
    /\ group # None
    /\ Len(group[1].generators) >= 1
    /\ Len(fed.given) = 3
    /\ IsIdentity(fed.given[1])
    /\ fed.given[3] = <<0, 1, 2>>
    /\ fed.ops = 2
    /\ ~fed.grew

(***************************************************************************)
(* Properties of permutations                                              *)
(***************************************************************************)

Max(a, b) == IF a >= b THEN a ELSE b

\* C13: the product sends every index i to rhs(lhs(i)), an index beyond an
\* array being its own image, its length is the larger of the two lengths,
\* and the in-place product is the same array as the product by reference.
C13_ComposeApplies ==
    call.op = "compose" =>
        /\ Len(call.mul) = Max(Len(call.lhs), Len(call.rhs))
        /\ \A i \in 0..(Degree + 1) :
               PermGet(call.mul, i) = PermGet(call.rhs, PermGet(call.lhs, i))
        /\ call.mul_assign = call.mul

\* a shorter left operand and a longer right one, neither the identity
C13_Witness ==
    /\ call.op = "compose"
    /\ Len(call.lhs) = 2
    /\ Len(call.rhs) = 3
    /\ ~IsIdentity(call.lhs)
    /\ call.rhs[3] # 2
    /\ Len(call.mul_assign) = 3

\* C14: the inverse of a permutation is a permutation of the same length,
\* the products of the two in either order fix every index, and the
\* inverse of the inverse is the permutation.
C14_InverseInvolutive ==
    call.op = "inverse" =>
        /\ IsBijection(call.inverse, Len(call.perm))
        /\ \A i \in 0..(Degree + 1) :
               /\ PermGet(PermMul(call.perm, call.inverse), i) = i
               /\ PermGet(PermMul(call.inverse, call.perm), i) = i
               /\ PermGet(call.inverse, PermGet(call.perm, i)) = i
        /\ call.back = call.perm

\* the inverse of a permutation that is not its own inverse
C14_Witness ==
    /\ call.op = "inverse"
    /\ Len(call.perm) = 3
    /\ call.inverse # call.perm

\* the first index the array does not fix, None when it fixes all
RECURSIVE FirstMoved(_, _)
FirstMoved(perm, i) ==
    IF i >= Len(perm) THEN None
    ELSE IF perm[i + 1] # i THEN Some(i)
    ELSE FirstMoved(perm, i + 1)

\* C15: nonfix_index returns the first index i with perm(i) # i and None
\* when there is none, and is_identity holds exactly when it returns None.
C15_NonfixIsFirstIndex ==
    call.op = "nonfix" =>
        /\ call.nonfix_index = FirstMoved(call.perm, 0)
        /\ call.is_identity <=> (call.nonfix_index = None)

(***************************************************************************)
(* Properties of map composition                                           *)
(***************************************************************************)
\* A * (B * C), None when either product panics
MulRight(a, b, c) ==
    LET bc == TreeEquivalenceMul(b, c)
    IN  IF bc = None THEN None ELSE TreeEquivalenceMul(a, bc[1])

\* (A * B) * C, None when either product panics
MulLeft(a, b, c) ==
    LET ab == TreeEquivalenceMul(a, b)
    IN  IF ab = None THEN None ELSE TreeEquivalenceMul(ab[1], c)

\* C16: the product of two maps is defined whenever the target of the first
\* and the source of the second are structurally equal, whether or not they
\* are the same node; it goes from the source of the first to the target of
\* the second and sends each leaf where the second map sends the first
\* map's image of it; and a chain composes to the same map either way.
C16_ComposeStructural ==
    (call.op = "mul" /\ Structure(call.lhs.right) = Structure(call.rhs.left)) =>
        /\ call.product # None
        /\ call.product[1].left = call.lhs.left
        /\ call.product[1].right = call.rhs.right
        /\ \A k \in DOMAIN call.lhs.bijection.left_to_right :
              call.product[1].bijection.left_to_right[k]
                = call.rhs.bijection.left_to_right[
                      call.lhs.bijection.left_to_right[k].addr]
        /\ \A c \in EquivPool :
              Structure(call.rhs.right) = Structure(c.left) =>
                  /\ MulLeft(call.lhs, call.rhs, c) # None
                  /\ MulLeft(call.lhs, call.rhs, c) = MulRight(call.lhs, call.rhs, c)

(***************************************************************************)
(* Properties of the pattern index                                         *)
(***************************************************************************)
\* the addresses of the nodes of a tree
AddrsOf(node) == { WalkNodes(node)[i].addr : i \in 1..Len(WalkNodes(node)) }

\* C17: every node that matches returns for a pattern and a host is a
\* branch of the host, and from_embedding of the pattern at that node
\* returns a map (it does not panic) with one entry for every leaf of the
\* pattern; all_matches of the pattern's table returns the same nodes.
C17_MatchesEmbed ==
    call.op = "matches" =>
        /\ call.all_matches = call.matched
        /\ \A i \in 1..Len(call.matched) :
              /\ call.matched[i].kind = "Branch"
              /\ call.matched[i].addr \in AddrsOf(call.host)
              /\ call.embeddings[i] # None
              /\ DOMAIN call.embeddings[i][1]
                   = { WalkLeaves(call.pattern)[k].addr
                       : k \in 1..Len(WalkLeaves(call.pattern)) }

\* a pattern with a branch below its root matched at two sites of a host
\* in which it does not embed at the root
C17_Witness ==
    /\ call.op = "matches"
    /\ Len(WalkLeaves(call.pattern)) >= 3
    /\ Len(call.matched) >= 2
    /\ FromEmbedding(call.pattern, call.host) = None

\* a pattern embeds at a node when every branch of the pattern lies on a
\* branch of the host below that node
RECURSIVE Embeds(_, _)
Embeds(pattern, node) ==
    \/ pattern.kind = "Leaf"
    \/ /\ node.kind = "Branch"
       /\ Embeds(pattern.left, node.left)
       /\ Embeds(pattern.right, node.right)

\* the nodes of a sequence at which the pattern embeds, in the same order
RECURSIVE EmbeddedAt(_, _, _)
EmbeddedAt(pattern, nodes, i) ==
    IF i > Len(nodes) THEN <<>>
    ELSE (IF Embeds(pattern, nodes[i]) THEN <<nodes[i]>> ELSE <<>>)
         \o EmbeddedAt(pattern, nodes, i + 1)

\* C18: for every pattern, the single leaf included, and every host,
\* matches returns exactly the nodes of the host at which the pattern
\* embeds, each once, children before their parents.
C18_MatchesComplete ==
    call.op = "matches" =>
        call.matched = EmbeddedAt(call.pattern, WalkNodes(call.host), 1)

\* C18 as the code has it: for a pattern with at least one branch, matches
\* returns exactly the nodes of the host at which the pattern embeds, each
\* once, children before their parents; for the pattern that is a single
\* leaf it returns no node.
C18_BranchPatternsComplete ==
    call.op = "matches" =>
        call.matched = IF call.pattern.kind = "Leaf"
                       THEN <<>>
                       ELSE EmbeddedAt(call.pattern, WalkNodes(call.host), 1)

\* a pattern with a branch below its root found at a site and again at a
\* node above that site
C18_Witness ==
    /\ call.op = "matches"
    /\ Len(WalkLeaves(call.pattern)) >= 3
    /\ Len(call.matched) >= 2
    /\ \E i, j \in 1..Len(call.matched) :
          /\ i < j
          /\ call.matched[i].addr \in AddrsOf(call.matched[j])

(***************************************************************************)
(* Properties of substitution                                              *)
(***************************************************************************)
\* the number of leaves of the host to the left of a node
RECURSIVE LeavesBefore(_, _)
LeavesBefore(host, node) ==
    IF host.addr = node.addr \/ host.kind = "Leaf" THEN 0
    ELSE IF node.addr \in { WalkNodes(host.left)[i].addr : i \in 1..Len(WalkNodes(host.left)) }
    THEN LeavesBefore(host.left, node)
    ELSE Len(WalkLeaves(host.left)) + LeavesBefore(host.right, node)

\* the leaf range [start, end) of the subterm of `node` bound to the leaf
\* of the pattern with the given index, counted from the first leaf of node
RECURSIVE BoundRange(_, _, _, _)
BoundRange(pattern, node, index, offset) ==
    IF pattern = Variable
    THEN <<offset, offset + Len(WalkLeaves(node))>>
    ELSE IF index < LeafCount(pattern[1])
    THEN BoundRange(pattern[1], node.left, index, offset)
    ELSE BoundRange(pattern[2], node.right, index - LeafCount(pattern[1]),
                    offset + Len(WalkLeaves(node.left)))

\* the host leaves under the leaves 0..j-1 of the rule's target, in order
RECURSIVE RegionLeaves(_, _, _, _)
RegionLeaves(bijection, match_root, base, j) ==
    IF j = 0 THEN <<>>
    ELSE LET bound == BoundRange(bijection.source, match_root,
                                 PermGet(PermInverse(bijection.perm), j - 1), 0)
         IN  RegionLeaves(bijection, match_root, base, j - 1)
             \o Range(base + bound[1], base + bound[2])

\* C19: the vector substitute accumulates holds every index of
\* [0, leafCount(H)) exactly once; the leaves to the left and to the right
\* of the match site keep their index, and each leaf inside it carries the
\* index of the host leaf it was copied from.
C19_SubstitutionMapBijection ==
    (call.op = "substitute" /\ call.out # None) =>
        \A n \in { Len(WalkLeaves(call.host)) } :
        \A base \in { LeavesBefore(call.host, call.match_root) } :
        \A size \in { Len(WalkLeaves(call.match_root)) } :
            /\ IsBijection(call.out[1].backward, n)
            /\ call.out[1].backward
                 = Range(0, base)
                   \o RegionLeaves(call.bijection, call.match_root, base,
                                   LeafCount(call.bijection.target))
                   \o Range(base + size, n)

\* the subterm of a node bound to each label of a pattern that embeds there
RECURSIVE BindingOf(_, _)
BindingOf(pattern, node) ==
    IF Len(pattern) = 1
    THEN pattern[1] :> Structure(node)
    ELSE BindingOf(pattern[1], node.left) @@ BindingOf(pattern[2], node.right)

\* an expression with every leaf replaced by the subterm bound to its label
RECURSIVE Instantiate(_, _)
Instantiate(target, binding) ==
    IF Len(target) = 1
    THEN binding[target[1]]
    ELSE <<Instantiate(target[1], binding), Instantiate(target[2], binding)>>

\* the content of a tree with the node at one address replaced
RECURSIVE ReplaceAt(_, _, _)
ReplaceAt(node, addr, replacement) ==
    IF node.addr = addr THEN replacement
    ELSE IF node.kind = "Leaf" THEN <<node.value>>
    ELSE <<ReplaceAt(node.left, addr, replacement),
           ReplaceAt(node.right, addr, replacement)>>

\* C20: substitue at a match site returns the host with exactly the subtree
\* at that site replaced by the rule's right side in which every leaf is
\* the host subterm bound to the leaf of the left side with the same label;
\* the result has as many leaves as the host; the host, which the returned
\* transformation keeps as its source, is as it was; and the rule
\* a*(b*c) -> (b*a)*c on a*(c*(b*d)) gives a*((b*c)*d) at the inner site
\* and (c*a)*(b*d) at the root.
C20_SubstitueReplacesSite ==
    call.op = "substitue" =>
        /\ call.out # None
        /\ Structure(call.out[1].result)
             = ReplaceAt(call.host, call.matched[call.site].addr,
                         Instantiate(Structure(call.transform.target),
                                     BindingOf(Structure(call.transform.source),
                                               call.matched[call.site])))
        /\ Len(WalkLeaves(call.out[1].result)) = Len(WalkLeaves(call.host))
        /\ call.out[1].transform.source = call.host
        /\ call.out[1].transform.target = call.out[1].result
        /\ (/\ Structure(call.host) = TestHaystack
            /\ Structure(call.transform.source) = TestLeft
            /\ Structure(call.transform.target) = TestRight)
           => /\ Len(call.matched) = 2
              /\ call.site = 1 => Structure(call.out[1].result) = TestInner
              /\ call.site = 2 => Structure(call.out[1].result) = TestOuter

\* the second call of the test: the rule applied at the root of the
\* haystack, which changes it
C20_Witness ==
    /\ call.op = "substitue"
    /\ Structure(call.host) = TestHaystack
    /\ Structure(call.transform.source) = TestLeft
    /\ Structure(call.transform.target) = TestRight
    /\ call.site = 2
    /\ call.out # None
    /\ Structure(call.out[1].result) = TestOuter

(***************************************************************************)
(* Properties of the tree enumerators                                      *)
(***************************************************************************)
\* the Catalan numbers: C(0) = 1, C(n + 1) = sum of C(i) * C(n - i)
RECURSIVE Catalan(_)
RECURSIVE CatalanSum(_, _)
CatalanSum(n, i) ==
    IF i > n THEN 0 ELSE Catalan(i) * Catalan(n - i) + CatalanSum(n, i + 1)

Catalan(n) == IF n = 0 THEN 1 ELSE CatalanSum(n - 1, 0)

\* a sequence of trees with exactly k leaves each and no tree twice
DistinctShapes(items, k) ==
    /\ \A i \in 1..Len(items) : items[i] \in ShapesOf(k)
    /\ \A i, j \in 1..Len(items) : items[i] = items[j] => i = j

\* a sequence that holds every tree with k leaves
AllShapes(items, k) ==
    /\ { items[i] : i \in 1..Len(items) } = ShapesOf(k)
    /\ Len(items) = Catalan(k - 1)

\* C21: started with k leaves, each enumerator yields trees with exactly k
\* leaves and none twice; when it first returns None it has yielded every
\* tree with k leaves, Catalan(k - 1) of them, and it does not crash before
\* that; and the two enumerators yield the same trees in the same order.
C21_EnumeratesEachTreeOnce ==
    iter.k # 0 =>
        /\ DistinctShapes(iter.structure_items, iter.k)
        /\ DistinctShapes(iter.tree_items, iter.k)
        /\ iter.structure_nones >= 1 => AllShapes(iter.structure_items, iter.k)
        /\ iter.tree_nones >= 1 => AllShapes(iter.tree_items, iter.k)
        /\ iter.structure_panicked => iter.structure_nones >= 1
        /\ ~iter.tree_panicked
        /\ \A i \in 1..Len(iter.structure_items) :
              i <= Len(iter.tree_items) => iter.structure_items[i] = iter.tree_items[i]

\* both enumerators have ended after the five trees with four leaves
C21_Witness ==
    /\ iter.k = 4
    /\ iter.structure_nones >= 1
    /\ iter.tree_nones >= 1
    /\ Len(iter.structure_items) = 5
    /\ iter.tree_items = iter.structure_items

\* C29: once next has returned None, every later call returns None again:
\* it yields no tree, it does not crash on the right-leaf counter going
\* below 0, and it leaves the iterator as it was; for both enumerators.
C29_StaysFinished ==
    [][ /\ (iter.k # 0 /\ iter.structure_nones >= 1
            /\ iter'.structure_calls # iter.structure_calls)
           => /\ ~iter'.structure_panicked
              /\ iter'.structure_items = iter.structure_items
              /\ iter'.structure = iter.structure
        /\ (iter.k # 0 /\ iter.tree_nones >= 1
            /\ iter'.tree_calls # iter.tree_calls)
           => /\ ~iter'.tree_panicked
              /\ iter'.tree_items = iter.tree_items
              /\ iter'.tree = iter.tree ]_vars

(***************************************************************************)
(* Properties of find                                                      *)
(***************************************************************************)

\* the entry a visited child continues from: its grandparent when its parent
\* is a child, its parent otherwise
HopTarget(es, index) ==
    LET parent == es[index + 1].parent
    IN  IF es[parent + 1].kind = "Child" THEN es[parent + 1].parent ELSE parent

\* the map of the hop a visited child takes
HopMap(es, index) ==
    LET parent == es[index + 1].parent
    IN  IF es[parent + 1].kind = "Child"
        THEN TermMapMulAssign(es[index + 1].parent_map, es[parent + 1].parent_map)
        ELSE es[index + 1].parent_map

\* the children visited on the way from index to the root, in order
RECURSIVE Visited(_, _, _)
Visited(es, index, fuel) ==
    IF es[index + 1].kind = "Root" \/ fuel = 0 THEN <<>>
    ELSE <<index>> \o Visited(es, HopTarget(es, index), fuel - 1)

\* map composed with the hop maps of visited[k], visited[k + 1], ...
RECURSIVE ComposeHops(_, _, _, _)
ComposeHops(es, visited, k, map) ==
    IF k > Len(visited) THEN map
    ELSE ComposeHops(es, visited, k + 1, TermMapMulAssign(map, HopMap(es, visited[k])))

\* the maps a caller may track from the entry index: the identity of its
\* term and every map of the pool that ends at its term
TrackingMaps(index) ==
    {IdentityMap(entries[index + 1].term)}
        \cup { map \in MapPool : map.target = entries[index + 1].term }

MaxPoints == Degree + 1

\* a permutation as the array of its images of the points 0..MaxPoints-1
Padded(perm) == [k \in 1..MaxPoints |-> PermGet(perm, k - 1)]

\* the least set of padded permutations that holds found and is closed under
\* multiplication by every generator
RECURSIVE Generated(_, _)
Generated(generators, found) ==
    LET products == found \cup { Padded(PermMul(p, generators[k])) :
                                 p \in found, k \in 1..Len(generators) }
    IN  IF products = found THEN found ELSE Generated(generators, products)

\* the subgroup generated by the permutations handed to the group
GeneratedSubgroup == Generated(fed.given, {Padded(PermIdentity)})

\* every permutation array of at most MaxPoints points
AllPerms == UNION { PermsOf(n) : n \in 0..MaxPoints }

\* one level of the chain is well formed, and so is every level below it;
\* bases holds the base points of the levels above
RECURSIVE ChainWellFormed(_, _)
ChainWellFormed(g, bases) ==
    /\ \A x \in 0..(Len(g.transversal_inv) - 1) :
           g.transversal_inv[x + 1] # None =>
               PermGet(g.transversal_inv[x + 1][1], x) = g.stab_point
    /\ { g.orbits[k] : k \in 1..Len(g.orbits) }
           = { x \in 0..(Len(g.transversal_inv) - 1) : g.transversal_inv[x + 1] # None }
    /\ g.orbits[1] = g.stab_point
    /\ \A j, k \in 1..Len(g.orbits) : g.orbits[j] = g.orbits[k] => j = k
    /\ \A k \in 1..Len(g.generators) :
           \A b \in bases : PermGet(g.generators[k], b) = b
    /\ g.stab_subgroup # None =>
           ChainWellFormed(g.stab_subgroup[1], bases \cup {g.stab_point})

\* C28: after from_generators and any extend calls, contains accepts only
\* permutations of the subgroup generated by the permutations given; every
\* stored inverse coset representative of an orbit element x maps x to the
\* level's base point; the orbit list holds exactly the indices that have a
\* representative, the base point first and none twice; and every generator
\* stored below a level fixes that level's base point.
C28_ChainSoundWellFormed ==
    group # None =>
        /\ \A perm \in AllPerms :
               Contains(group[1], perm) => Padded(perm) \in GeneratedSubgroup
        /\ ChainWellFormed(group[1], {})

\* a chain of two levels whose top orbit has three points and that accepts a
\* permutation which is neither the identity nor one of those given
C28_Witness ==
    /\ group # None
    /\ group[1].stab_subgroup # None
    /\ Len(group[1].orbits) >= 3
    /\ Len(group[1].stab_subgroup[1].generators) >= 1
    /\ \E perm \in AllPerms :
           /\ Contains(group[1], perm)
           /\ ~IsIdentity(perm)
           /\ \A k \in 1..Len(fed.given) : Padded(fed.given[k]) # Padded(perm)

(***************************************************************************)
(* Properties of the rule's leaf bijection                                 *)
(***************************************************************************)

\* no label occurs twice in the sequence
NoRepeat(labels) == \A i, j \in 1..Len(labels) : labels[i] = labels[j] => i = j

\* the two sides use the same letters, each once on each side
SidesAgree(left, right) ==
    /\ NoRepeat(LeafLabels(left))
    /\ NoRepeat(LeafLabels(right))
    /\ { LeafLabels(left)[i] : i \in 1..Len(LeafLabels(left)) }
           = { LeafLabels(right)[i] : i \in 1..Len(LeafLabels(right)) }

\* C25: when the two sides of a rule disagree on their leaf letters (a
\* letter on one side only, or a letter twice on a side) building the leaf
\* bijection aborts and no map is produced; and a map that is produced is a
\* bijection that sends the i-th leaf of the left side to the leaf of the
\* right side with the same letter.
C25_LabelMismatchRejected ==
    call.op = "rule" =>
        LET left_labels == LeafLabels(call.left)
            right_labels == LeafLabels(call.right)
            left_leaves == WalkLeaves(Parse(call.left, "left"))
            right_leaves == WalkLeaves(Parse(call.right, "right"))
        IN  /\ ~SidesAgree(call.left, call.right) =>
                   (call.bijection = None /\ call.map = None)
            /\ call.bijection # None =>
                   LET left_to_right == call.bijection[1].left_to_right
                       right_to_left == call.bijection[1].right_to_left
                   IN  /\ DOMAIN left_to_right
                              = { left_leaves[i].addr : i \in 1..Len(left_leaves) }
                       /\ DOMAIN right_to_left
                              = { right_leaves[i].addr : i \in 1..Len(right_leaves) }
                       /\ \A i \in 1..Len(left_leaves) :
                              /\ left_to_right[left_leaves[i].addr].value = left_labels[i]
                              /\ right_to_left[left_to_right[left_leaves[i].addr].addr]
                                     = left_leaves[i]
            /\ call.map # None =>
                   /\ Len(left_labels) = Len(right_labels)
                   /\ IsBijection(call.map[1].perm, Len(right_labels))
                   /\ \A i \in 1..Len(left_labels) :
                          right_labels[call.map[1].perm[i] + 1] = left_labels[i]

(***************************************************************************)
(* Properties of the recorded automorphisms                                *)
(***************************************************************************)

\* the automorphism perm of the entry index carried to the leaf indices of
\* the root that to_root leads to: back along the map, perm, forward again
Transported(perm, to_root) ==
    PermMul(PermMul(PermInverse(to_root.perm), perm), to_root.perm)

\* C27: automorphisms recorded for a class are never lost: across every
\* add_equiv call, each permutation taken into the group of a root is
\* contained, carried along the parent maps, in the group of the root its
\* class has after the call, also when the call demoted the root that held
\* the group.
C27_AutomorphismsKept ==
    [][ \A r \in Indices(entries) :
            (entries[r + 1].kind = "Root" /\ entries[r + 1].automorphisms # None) =>
                \A to_root \in { MapToRoot(entries', r) } :
                    LET root_entry == entries'[to_root.index + 1]
                        generators == entries[r + 1].automorphisms[1].generators
                    IN  /\ root_entry.automorphisms # None
                        /\ \A k \in 1..Len(generators) :
                               Contains(root_entry.automorphisms[1],
                                        Transported(generators[k], to_root.tracking_map))
      ]_vars

(***************************************************************************)
(* Properties of the two directions of a rule                              *)
(***************************************************************************)

\* C30: the two directions of a rule are opposite transforms: left_to_right
\* matches the nodes of a host at which the left side embeds and
\* right_to_left the nodes at which the right side embeds; and applying
\* left_to_right at a site and right_to_left at the replacement gives back a
\* term structurally equal to the host.
C30_OppositeDirections ==
    /\ call.op = "directions" =>
           /\ call.forward
                  = EmbeddedAt(call.equivalence.left, WalkNodes(call.host), 1)
           /\ call.backward
                  = EmbeddedAt(call.equivalence.right, WalkNodes(call.host), 1)
    /\ call.op = "round trip" =>
           /\ call.there # None
           /\ call.back # None
           /\ Structure(call.back[1].result) = Structure(call.host)


(***************************************************************************)
(* Properties of the engine runs                                           *)
(***************************************************************************)

\* a run of the engine for this rule and this cap
EngineRun(rule, cap) ==
    call.op = "engine" /\ call.rule = rule /\ call.cap = cap

\* the run has worked off every term and every rewrite step
EngineDone == call.work = <<>> /\ ~panicked

\* the root entry of a known term
RootEntry(term) == entries[RootOf(entries, by_shape[term])[1] + 1]

\* whether the automorphism group of the entry holds perm; an entry
\* without a group stands for the trivial group
Accepts(entry, perm) ==
    IF entry.automorphisms = None THEN IsIdentity(perm)
    ELSE Contains(entry.automorphisms[1], perm)

\* the terms with this many leaves that the run knows
KnownWith(leaves) == { t \in DOMAIN by_shape : LeafCount(t) = leaves }

\* the known terms with this many leaves lie in one class
OneClass(leaves) ==
    \A s, t \in KnownWith(leaves) :
        RootOf(entries, by_shape[s]) = RootOf(entries, by_shape[t])

\* C22: the run with the commutativity rule and N = 2 ends without a crash,
\* and at its end the 2-leaf term is known, its class has a root, and the
\* root's automorphism group accepts the identity and the transposition
\* (0 1), the two permutations of two leaf indices.
C22_CommutativityTwoLeaves ==
    EngineRun("comm", 2) =>
        /\ ~panicked
        /\ EngineDone =>
               /\ KnownWith(2) # {}
               /\ OneClass(2)
               /\ \A t \in KnownWith(2) : \A perm \in PermsOf(2) :
                      Accepts(RootEntry(t), perm)

\* C23: the run with the associativity rule and N = 3 or N = 4 never
\* crashes and never gives an entry an automorphism group, and at its end
\* the shapes with 3 leaves lie in one class and the shapes with 4 leaves
\* lie in one class.
C23_AssociativityCollapses ==
    (EngineRun("assoc", 3) \/ EngineRun("assoc", 4)) =>
        /\ ~panicked
        /\ \A i \in Indices(entries) :
               entries[i + 1].kind = "Root" => entries[i + 1].automorphisms = None
        /\ EngineDone =>
               /\ Cardinality(KnownWith(3)) = 2
               /\ OneClass(3)
               /\ call.cap = 4 => Cardinality(KnownWith(4)) = 5 /\ OneClass(4)

Accepted(term) == { perm \in PermsOf(LeafCount(term)) : Accepts(RootEntry(term), perm) }

====
